---- MODULE Spec2Model ----
(***************************************************************************)
(* The OData-style filter round trip of the monorepo: the client-side     *)
(* serializer (libs/shared odata-filter frontend utilities), the          *)
(* server-side tokenizer / value parser / expression parser and the       *)
(* translator to TypeORM FindOptionsWhere.                                 *)
(*                                                                         *)
(* JavaScript strings are modelled as sequences of one-character strings, *)
(* so that tokenizing, trimming, quoting and splitting are computed        *)
(* character by character as the code computes them.                       *)
(***************************************************************************)
EXTENDS Integers, Sequences, FiniteSets, TLC

VARIABLES
  source,           \* who produced the input: "client" (the serializer),
                    \* "request" (a hand-written request), "call" (a direct
                    \* call of the translator)
  pc,               \* "client", "request", "parsed", "done"; "threw" when
                    \* the parser raised
  D,                \* the filter descriptors given to the serializer
  written,          \* the triplets of a hand-written filter expression
  logicalOperator,  \* the joiner word between the expressions
  query,            \* the value of query['filter'] of the request
  filterString,     \* the result of buildFilterQueryString
  filters,          \* the ParsedFilter[] the parser returned
  k,                \* the number of filters forEach has visited
  where,            \* the FindOptionsWhere object being filled
  \* The HTTP cache of a BaseHttpService (frontend api-client)
  options,          \* the service's options: [cacheScope, cacheTtl]
  cacheAdapter,     \* TRUE when an HttpCacheAdapter is injected, FALSE when null
  store,            \* the cache storage: key -> [value, lifeSpan]
  inflight,         \* the HTTP requests sent and not yet delivered
  issued,           \* the number of service calls made so far
  serverVersion,    \* the version of the data on the server
  event,            \* the latest call or response seen by the client
  factoryCalls,     \* how many times a getCached factory was invoked
  adapterCalls,     \* how many times each adapter method was called
  invalidated,      \* a mutation has invalidated the scope and getCached has
                    \* not been called since
  \* One subscription to source.pipe(retryRequest(config)) (frontend api-client)
  retryConfig,      \* the config argument of retryRequest
  retryState,       \* "subscribed" to the source, "waiting" for the timer,
                    \* "errored" or "completed" (what the subscriber was told)
  soFar,            \* the retry counter of the retry operator
  subscriptions,    \* how many times the source has been subscribed
  emitted,          \* how many values the current subscription has emitted
  lastError,        \* the latest error of the source
  \* One request through errorInterceptor (frontend common); its retry
  \* operator uses the four variables above
  req,              \* the intercepted request: [method, url]
  retryCount,       \* the interceptor's own counter of retries
  logged,           \* the errors given to errorService.logError
  notifications,    \* the notifications shown
  rethrown,         \* the errors passed on to the subscriber
  \* LoadingService (frontend)
  loadingStates,    \* the Map key -> LoadingState, in insertion order
  globalLoading,    \* the latest value of isGlobalLoading$
  now,              \* the clock read by Date.now()
  \* AllExceptionsFilter (backend common)
  nodeEnv,          \* process.env['NODE_ENV']
  loggerService,    \* whether a LoggerService was injected
  handling,         \* "idle", "raised" (an exception reached the filter),
                    \* "sent" (catch answered) or "threw" (catch raised)
  exception,        \* the exception given to catch
  httpRequest,      \* the request being served: [method, url, ip, userAgent]
  response,         \* what catch sent: [status, json]
  logCall,          \* the call catch made to the logger
  \* NotificationService (frontend common)
  notificationQueue, \* the Map key -> time the notification was last shown
  timeouts,         \* the pending clean-up timers: [key, due]
  toasts,           \* the calls made to the ToastrService, with their time
  dateNow,          \* the clock read by Date.now(), in ms
  \* Subscriptions to the observables of LoadingService.wrap (frontend)
  wrapped,          \* per subscription: [key, state]
  \* GlobalErrorHandler (frontend common)
  errorNotificationCount,  \* the counter of the rate limit
  notificationResetTimer,  \* the handle of the reset timer, 0 for null
  resetTimeouts,    \* the pending reset timers: [id, left], left in ms
  handledErrors,    \* the number of handleError calls made
  shownSinceReset,  \* the notifications shown since the counter was last reset
  lastHandled       \* what the latest handleError call did

filterVars ==
  <<source, pc, D, written, logicalOperator, query, filterString, filters, k, where>>

cacheVars ==
  <<options, cacheAdapter, store, inflight, issued, serverVersion, event,
    factoryCalls, adapterCalls, invalidated>>

retryVars == <<retryConfig, retryState, soFar, subscriptions, emitted, lastError>>

interceptorVars == <<req, retryCount, logged, notifications, rethrown>>

loadingVars == <<loadingStates, globalLoading, now>>

exceptionVars ==
  <<nodeEnv, loggerService, handling, exception, httpRequest, response,
    logCall>>

notifierVars == <<notificationQueue, timeouts, toasts, dateNow>>

wrapVars == <<wrapped>>

handlerVars ==
  <<errorNotificationCount, notificationResetTimer, resetTimeouts,
    handledErrors, shownSinceReset, lastHandled>>

vars ==
  <<filterVars, cacheVars, retryVars, interceptorVars, loadingVars,
    exceptionVars, notifierVars, wrapVars, handlerVars>>

\* The state of each part of the repository while another part is being run.
FilterIdle ==
  /\ source = "none"
  /\ pc = "idle"
  /\ D = <<>>
  /\ written = <<>>
  /\ logicalOperator = <<>>
  /\ query = <<>>
  /\ filterString = <<>>
  /\ filters = <<>>
  /\ k = 0
  /\ where = <<>>

CacheIdle ==
  /\ options = <<>>
  /\ cacheAdapter = FALSE
  /\ store = <<>>
  /\ inflight = {}
  /\ issued = 0
  /\ serverVersion = 0
  /\ event = <<>>
  /\ factoryCalls = 0
  /\ adapterCalls = <<>>
  /\ invalidated = FALSE

RetryIdle ==
  /\ retryConfig = <<>>
  /\ retryState = "idle"
  /\ soFar = 0
  /\ subscriptions = 0
  /\ emitted = 0
  /\ lastError = <<>>

InterceptorIdle ==
  /\ req = <<>>
  /\ retryCount = 0
  /\ logged = <<>>
  /\ notifications = <<>>
  /\ rethrown = <<>>

LoadingIdle ==
  /\ loadingStates = <<>>
  /\ globalLoading = FALSE
  /\ now = 0

ExceptionIdle ==
  /\ nodeEnv = <<>>
  /\ loggerService = FALSE
  /\ handling = "idle"
  /\ exception = <<>>
  /\ httpRequest = <<>>
  /\ response = <<>>
  /\ logCall = <<>>

NotifierIdle ==
  /\ notificationQueue = <<>>
  /\ timeouts = {}
  /\ toasts = <<>>
  /\ dateNow = 0

WrapIdle == wrapped = <<>>

HandlerIdle ==
  /\ errorNotificationCount = 0
  /\ notificationResetTimer = 0
  /\ resetTimeouts = {}
  /\ handledErrors = 0
  /\ shownSinceReset = 0
  /\ lastHandled = <<>>

\* The parts added last: the notification service, the wrapped observables of
\* the loading service and the global error handler.
FrontendIdle == NotifierIdle /\ WrapIdle /\ HandlerIdle

OutsideFilter ==
  CacheIdle /\ RetryIdle /\ InterceptorIdle /\ LoadingIdle /\ ExceptionIdle
    /\ FrontendIdle

OutsideCache ==
  FilterIdle /\ RetryIdle /\ InterceptorIdle /\ LoadingIdle /\ ExceptionIdle
    /\ FrontendIdle

OutsideRetry ==
  FilterIdle /\ CacheIdle /\ InterceptorIdle /\ LoadingIdle /\ ExceptionIdle
    /\ FrontendIdle

OutsideInterceptor == FilterIdle /\ CacheIdle /\ LoadingIdle /\ ExceptionIdle /\ FrontendIdle

OutsideLoading ==
  FilterIdle /\ CacheIdle /\ RetryIdle /\ InterceptorIdle /\ ExceptionIdle
    /\ FrontendIdle

OutsideExceptions ==
  FilterIdle /\ CacheIdle /\ RetryIdle /\ InterceptorIdle /\ LoadingIdle
    /\ FrontendIdle

nonFilterVars ==
  <<cacheVars, retryVars, interceptorVars, loadingVars, exceptionVars,
    notifierVars, wrapVars, handlerVars>>

nonCacheVars ==
  <<filterVars, retryVars, interceptorVars, loadingVars, exceptionVars,
    notifierVars, wrapVars, handlerVars>>

nonRetryVars ==
  <<filterVars, cacheVars, interceptorVars, loadingVars, exceptionVars,
    notifierVars, wrapVars, handlerVars>>

nonInterceptorVars == <<filterVars, cacheVars, loadingVars, exceptionVars,
    notifierVars, wrapVars, handlerVars>>

nonLoadingVars ==
  <<filterVars, cacheVars, retryVars, interceptorVars, exceptionVars,
    notifierVars, wrapVars, handlerVars>>

nonExceptionVars ==
  <<filterVars, cacheVars, retryVars, interceptorVars, loadingVars,
    notifierVars, wrapVars, handlerVars>>

OutsideNotifier ==
  /\ FilterIdle /\ CacheIdle /\ RetryIdle /\ InterceptorIdle /\ LoadingIdle
  /\ ExceptionIdle /\ WrapIdle /\ HandlerIdle

OutsideHandler ==
  /\ FilterIdle /\ CacheIdle /\ RetryIdle /\ InterceptorIdle /\ LoadingIdle
  /\ ExceptionIdle /\ NotifierIdle /\ WrapIdle

nonNotifierVars ==
  <<filterVars, cacheVars, retryVars, interceptorVars, loadingVars,
    exceptionVars, wrapVars, handlerVars>>

nonWrapVars ==
  <<filterVars, cacheVars, retryVars, interceptorVars, exceptionVars,
    notifierVars, handlerVars>>

nonHandlerVars ==
  <<filterVars, cacheVars, retryVars, interceptorVars, loadingVars,
    exceptionVars, notifierVars, wrapVars>>

(***************************************************************************)
(* Characters and JavaScript string primitives                             *)
(***************************************************************************)

\* The characters matched by the regular expression \s and removed by trim().
WhiteSpace == {" ", "\t", "\n", "\r"}

\* String.prototype.toLowerCase on one character.
LowerChar(c) ==
  CASE c = "A" -> "a" [] c = "B" -> "b" [] c = "C" -> "c" [] c = "D" -> "d"
    [] c = "E" -> "e" [] c = "I" -> "i" [] c = "J" -> "j" [] c = "L" -> "l"
    [] c = "N" -> "n" [] c = "Y" -> "y"
    [] c = "O" -> "o" [] c = "Q" -> "q" [] c = "R" -> "r" [] c = "S" -> "s"
    [] c = "T" -> "t" [] c = "U" -> "u" [] OTHER -> c

toLowerCase(s) == [i \in 1..Len(s) |-> LowerChar(s[i])]

\* s.slice(from) with a 0-based start index.
SliceFrom(s, from) == SubSeq(s, from + 1, Len(s))

\* s.slice(1, -1)
SliceInner(s) == SubSeq(s, 2, Len(s) - 1)

RECURSIVE TrimStart(_)
TrimStart(s) ==
  IF s # <<>> /\ Head(s) \in WhiteSpace THEN TrimStart(Tail(s)) ELSE s

RECURSIVE TrimEnd(_)
TrimEnd(s) ==
  IF s # <<>> /\ s[Len(s)] \in WhiteSpace
    THEN TrimEnd(SubSeq(s, 1, Len(s) - 1))
    ELSE s

\* String.prototype.trim
trim(s) == TrimEnd(TrimStart(s))

\* String.prototype.includes for a one-character needle.
includes(s, c) == \E i \in 1..Len(s) : s[i] = c

\* startsWith / endsWith for a one-character needle.
startsWith(s, c) == Len(s) >= 1 /\ s[1] = c

endsWith(s, c) == Len(s) >= 1 /\ s[Len(s)] = c

\* Array.prototype.join
RECURSIVE join(_, _)
join(parts, sep) ==
  IF parts = <<>> THEN <<>>
  ELSE IF Len(parts) = 1 THEN parts[1]
  ELSE parts[1] \o sep \o join(Tail(parts), sep)

\* String.prototype.split for a one-character separator: always at least one
\* part, empty parts kept.
RECURSIVE SplitFrom(_, _, _)
SplitFrom(s, c, cur) ==
  IF s = <<>> THEN <<cur>>
  ELSE IF Head(s) = c THEN <<cur>> \o SplitFrom(Tail(s), c, <<>>)
  ELSE SplitFrom(Tail(s), c, Append(cur, Head(s)))

split(s, c) == SplitFrom(s, c, <<>>)

\* v.replace(/'/g, "''"): every single quote doubled.
RECURSIVE DoubleQuotes(_)
DoubleQuotes(s) ==
  IF s = <<>> THEN <<>>
  ELSE IF Head(s) = "'" THEN <<"'", "'">> \o DoubleQuotes(Tail(s))
  ELSE <<Head(s)>> \o DoubleQuotes(Tail(s))

\* token.replace(/''/g, "'"): non-overlapping pairs of single quotes, scanned
\* left to right, each replaced by one single quote.
RECURSIVE UndoubleQuotes(_)
UndoubleQuotes(s) ==
  IF s = <<>> THEN <<>>
  ELSE IF Len(s) >= 2 /\ s[1] = "'" /\ s[2] = "'"
    THEN <<"'">> \o UndoubleQuotes(SubSeq(s, 3, Len(s)))
  ELSE <<Head(s)>> \o UndoubleQuotes(Tail(s))

(***************************************************************************)
(* Values: the union string | number | boolean | array | null (plus the    *)
(* undefined and Date values the serializer accepts) as one record shape.  *)
(* A Date is carried by the text toISOString() returns for it.             *)
(***************************************************************************)

Null == [t |-> "null", s |-> <<>>, n |-> 0, b |-> FALSE, a |-> <<>>]

Undefined == [t |-> "undefined", s |-> <<>>, n |-> 0, b |-> FALSE, a |-> <<>>]

Str(x) == [t |-> "string", s |-> x, n |-> 0, b |-> FALSE, a |-> <<>>]

Num(x) == [t |-> "number", s |-> <<>>, n |-> x, b |-> FALSE, a |-> <<>>]

Bool(x) == [t |-> "boolean", s |-> <<>>, n |-> 0, b |-> x, a |-> <<>>]

DateVal(iso) == [t |-> "date", s |-> iso, n |-> 0, b |-> FALSE, a |-> <<>>]

Arr(xs) == [t |-> "array", s |-> <<>>, n |-> 0, b |-> FALSE, a |-> xs]

(***************************************************************************)
(* Number(token) and String(number), for integers.  The fraction point is  *)
(* not modelled: the model's inputs hold no "." character.                  *)
(***************************************************************************)

DigitVal(c) ==
  CASE c = "0" -> 0 [] c = "1" -> 1 [] c = "2" -> 2 [] c = "3" -> 3
    [] c = "4" -> 4 [] c = "5" -> 5 [] c = "6" -> 6 [] c = "7" -> 7
    [] c = "8" -> 8 [] c = "9" -> 9
    [] c \in {"a", "A"} -> 10 [] c \in {"b", "B"} -> 11
    [] c \in {"c", "C"} -> 12 [] c \in {"d", "D"} -> 13
    [] c \in {"e", "E"} -> 14 [] c \in {"f", "F"} -> 15
    [] OTHER -> 99

\* A non-empty run of digits of the radix.
IsDigitRun(s, radix) == s # <<>> /\ \A i \in 1..Len(s) : DigitVal(s[i]) < radix

RECURSIVE DigitsValue(_, _)
DigitsValue(s, radix) ==
  IF s = <<>> THEN 0
  ELSE DigitsValue(SubSeq(s, 1, Len(s) - 1), radix) * radix + DigitVal(s[Len(s)])

RECURSIVE Pow10(_)
Pow10(x) == IF x = 0 THEN 1 ELSE 10 * Pow10(x - 1)

\* The position of the exponent marker of a decimal literal, 0 when absent.
ExponentAt(s) ==
  IF \E i \in 1..Len(s) : s[i] \in {"e", "E"}
    THEN CHOOSE i \in 1..Len(s) :
           /\ s[i] \in {"e", "E"}
           /\ \A j \in 1..(i - 1) : s[j] \notin {"e", "E"}
    ELSE 0

\* An unsigned decimal literal: digits, optionally followed by e and digits.
IsUnsignedDecimal(s) ==
  LET x == ExponentAt(s) IN
  IF x = 0 THEN IsDigitRun(s, 10)
  ELSE /\ IsDigitRun(SubSeq(s, 1, x - 1), 10)
       /\ IsDigitRun(SubSeq(s, x + 1, Len(s)), 10)

UnsignedDecimalValue(s) ==
  LET x == ExponentAt(s) IN
  IF x = 0 THEN DigitsValue(s, 10)
  ELSE DigitsValue(SubSeq(s, 1, x - 1), 10)
         * Pow10(DigitsValue(SubSeq(s, x + 1, Len(s)), 10))

RadixOf(c) ==
  CASE c \in {"x", "X"} -> 16 [] c \in {"o", "O"} -> 8
    [] c \in {"b", "B"} -> 2 [] OTHER -> 0

\* 0x.., 0o.., 0b.. literals (these take no sign).
IsRadixLiteral(s) ==
  /\ Len(s) >= 3
  /\ s[1] = "0"
  /\ RadixOf(s[2]) # 0
  /\ IsDigitRun(SubSeq(s, 3, Len(s)), RadixOf(s[2]))

HasSign(s) == s # <<>> /\ s[1] \in {"+", "-"}

Unsigned(s) == IF HasSign(s) THEN Tail(s) ELSE s

\* !isNaN(Number(token)): Number trims the text; the empty text is 0.
IsNumberText(token) ==
  LET s == trim(token) IN
  \/ s = <<>>
  \/ IsRadixLiteral(s)
  \/ IsUnsignedDecimal(Unsigned(s))
  \/ Unsigned(s) = <<"I", "n", "f", "i", "n", "i", "t", "y">>

IsFiniteText_Always(token) == TRUE

\* isFinite(Number(token)) for a text Number accepts.
IsFiniteText(token) ==
  Unsigned(trim(token)) # <<"I", "n", "f", "i", "n", "i", "t", "y">>

\* Number(token) for a text Number accepts as a finite number.
NumberValue(token) ==
  LET s == trim(token) IN
  IF s = <<>> THEN 0
  ELSE IF IsRadixLiteral(s) THEN DigitsValue(SubSeq(s, 3, Len(s)), RadixOf(s[2]))
  ELSE IF s[1] = "-" THEN 0 - UnsignedDecimalValue(Tail(s))
  ELSE UnsignedDecimalValue(Unsigned(s))

DigitChar(d) ==
  CASE d = 0 -> "0" [] d = 1 -> "1" [] d = 2 -> "2" [] d = 3 -> "3"
    [] d = 4 -> "4" [] d = 5 -> "5" [] d = 6 -> "6" [] d = 7 -> "7"
    [] d = 8 -> "8" [] OTHER -> "9"

RECURSIVE NatToString(_)
NatToString(x) ==
  IF x < 10 THEN <<DigitChar(x)>>
  ELSE Append(NatToString(x \div 10), DigitChar(x % 10))

\* String(n) for an integer n.
NumberToString(x) ==
  IF x < 0 THEN <<"-">> \o NatToString(0 - x) ELSE NatToString(x)

(***************************************************************************)
(* FilterOperator                                                          *)
(***************************************************************************)

OP_EQ == <<"e", "q">>

OP_NE == <<"n", "e">>

OP_GT == <<"g", "t">>

OP_GE == <<"g", "e">>

OP_LT == <<"l", "t">>

OP_LE == <<"l", "e">>

OP_CONTAINS == <<"c", "o", "n", "t", "a", "i", "n", "s">>

OP_STARTSWITH == <<"s", "t", "a", "r", "t", "s", "w", "i", "t", "h">>

OP_ENDSWITH == <<"e", "n", "d", "s", "w", "i", "t", "h">>

OP_IN == <<"i", "n">>

OP_NOT_IN == <<"n", "o", "t", "I", "n">>

OP_IS_NULL == <<"i", "s", "N", "u", "l", "l">>

OP_IS_NOT_NULL == <<"i", "s", "N", "o", "t", "N", "u", "l", "l">>

\* Object.values(FilterOperator)
FilterOperator ==
  {OP_EQ, OP_NE, OP_GT, OP_GE, OP_LT, OP_LE, OP_CONTAINS, OP_STARTSWITH,
   OP_ENDSWITH, OP_IN, OP_NOT_IN, OP_IS_NULL, OP_IS_NOT_NULL}

(***************************************************************************)
(* Server side: tokenizer                                                  *)
(***************************************************************************)

\* The tokenizer's local variables before the first character.
TokenizerStart ==
  [tokens |-> <<>>, current |-> <<>>, inQuotes |-> FALSE, quoteChar |-> ""]

PushTrimmed_Never(tokens, current) == tokens

\* tokens after `if (current.trim()) tokens.push(current.trim())`
PushTrimmed(tokens, current) ==
  IF trim(current) # <<>> THEN Append(tokens, trim(current)) ELSE tokens

ResetIfPushed_Never(current) == current

\* current after `if (current.trim()) { ...; current = '' }`
ResetIfPushed(current) == IF trim(current) # <<>> THEN <<>> ELSE current

\* One iteration of the tokenizer's for loop, at the 1-based position i.
TokenizeChar(st, expression, i) ==
  LET char == expression[i] IN
  IF char \in {"'", "\""} /\ (i = 1 \/ expression[i - 1] # "\\")
    THEN IF ~st.inQuotes
           THEN [tokens |-> PushTrimmed(st.tokens, st.current),
                 current |-> Append(ResetIfPushed(st.current), char),
                 inQuotes |-> TRUE,
                 quoteChar |-> char]
         ELSE IF char = st.quoteChar
           THEN [tokens |-> Append(st.tokens, Append(st.current, char)),
                 current |-> <<>>,
                 inQuotes |-> FALSE,
                 quoteChar |-> ""]
         ELSE [st EXCEPT !.current = Append(st.current, char)]
  ELSE IF st.inQuotes
    THEN [st EXCEPT !.current = Append(st.current, char)]
  ELSE IF char \in WhiteSpace
    THEN [st EXCEPT !.tokens = PushTrimmed(st.tokens, st.current),
                    !.current = ResetIfPushed(st.current)]
  ELSE IF char \in {"(", ")"}
    THEN [st EXCEPT !.tokens = Append(PushTrimmed(st.tokens, st.current), <<char>>),
                    !.current = ResetIfPushed(st.current)]
  ELSE [st EXCEPT !.current = Append(st.current, char)]

RECURSIVE TokenizeFrom(_, _, _)
TokenizeFrom(st, expression, i) ==
  IF i > Len(expression) THEN st
  ELSE TokenizeFrom(TokenizeChar(st, expression, i), expression, i + 1)

tokenizeODataExpression(expression) ==
  LET st == TokenizeFrom(TokenizerStart, expression, 1) IN
  SelectSeq(PushTrimmed(st.tokens, st.current), LAMBDA token : Len(token) > 0)

(***************************************************************************)
(* Server side: value parser                                               *)
(***************************************************************************)

RECURSIVE parseValue(_)
parseValue(token) ==
  IF token = <<"n", "u", "l", "l">> THEN Null
  ELSE IF \/ (startsWith(token, "'") /\ endsWith(token, "'"))
          \/ (startsWith(token, "\"") /\ endsWith(token, "\""))
    THEN Str(UndoubleQuotes(SliceInner(token)))
  ELSE IF startsWith(token, "(") /\ endsWith(token, ")")
    THEN LET parts == split(SliceInner(token), ",") IN
         Arr([j \in 1..Len(parts) |-> parseValue(trim(parts[j]))])
  ELSE IF token = <<"t", "r", "u", "e">> THEN Bool(TRUE)
  ELSE IF token = <<"f", "a", "l", "s", "e">> THEN Bool(FALSE)
  ELSE IF IsNumberText(token) /\ token # <<>> /\ IsFiniteText(token)
    THEN Num(NumberValue(token))
  ELSE Str(token)

(***************************************************************************)
(* Server side: expression parser.  The cursor i and the token indices are *)
(* 0-based as in the code; tokens[i] is Tok(tokens, i), which is undefined  *)
(* past the end of the array.  Calling a string method on undefined raises  *)
(* a TypeError: the loop state records it in the field threw.               *)
(***************************************************************************)

\* The value of tokens[i] for i >= tokens.length (no token is a sequence of
\* this shape: the elements of a token are single characters).
UndefinedToken == <<"undefined">>

Tok(tokens, i) == IF i < Len(tokens) THEN tokens[i + 1] ELSE UndefinedToken

IsJoinerToken(token) ==
  toLowerCase(token) \in {<<"a", "n", "d">>, <<"o", "r">>}

CollectArray_Stay(tokens, j, arrayValues) ==
  [j |-> j, arrayValues |-> arrayValues]

\* The inner while loop that collects the elements of a bracketed list:
\* [j, arrayValues] when it ends.
RECURSIVE CollectArray(_, _, _)
CollectArray(tokens, j, arrayValues) ==
  IF j < Len(tokens) /\ Tok(tokens, j) # <<")">>
    THEN CollectArray(tokens, j + 1,
           IF Tok(tokens, j) # <<",">> /\ Tok(tokens, j) # <<"(">>
             THEN Append(arrayValues, Tok(tokens, j))
             ELSE arrayValues)
    ELSE [j |-> j, arrayValues |-> arrayValues]

IsValidOperator_AcceptAll(operator) == TRUE

\* Object.values(FilterOperator).includes(operator)
IsValidOperator(operator) == operator \in FilterOperator

HasTriplet_OffByOne(tokens, i) == i + 1 < Len(tokens)

\* if (i + 2 < tokens.length)
HasTriplet(tokens, i) == i + 2 < Len(tokens)

\* One iteration of the cursor loop of parseODataExpression, from the state
\* [i, filters, threw] with i < tokens.length.  tokens[i + 1].toLowerCase()
\* raises when tokens[i + 1] is undefined, and so does parseValue(undefined)
\* (token.startsWith), which is called for a valid operator only.
ParseIteration(tokens, st) ==
  LET i == st.i IN
  IF IsJoinerToken(Tok(tokens, i))
    THEN [st EXCEPT !.i = i + 1]
  ELSE IF HasTriplet(tokens, i) /\ Tok(tokens, i + 1) = UndefinedToken
    THEN [st EXCEPT !.threw = TRUE]
  ELSE IF HasTriplet(tokens, i)
    THEN LET prop == Tok(tokens, i)
             operator == toLowerCase(Tok(tokens, i + 1))
             isList == /\ operator \in {OP_IN, OP_NOT_IN}
                       /\ Tok(tokens, i + 2) = <<"(">>
                       /\ i + 3 < Len(tokens)
             got == CollectArray(tokens, i + 3, <<>>)
             valueToken == IF isList
                             THEN <<"(">> \o join(got.arrayValues, <<",", " ">>)
                                    \o <<")">>
                             ELSE Tok(tokens, i + 2)
             next == IF isList THEN got.j + 1 ELSE i + 3
         IN  IF IsValidOperator(operator) /\ valueToken = UndefinedToken
               THEN [st EXCEPT !.threw = TRUE]
               ELSE [i |-> next,
                     filters |->
                       IF IsValidOperator(operator)
                         THEN Append(st.filters,
                                [prop |-> prop, operator |-> operator,
                                 value |-> parseValue(valueToken)])
                         ELSE st.filters,
                     threw |-> FALSE]
  ELSE [st EXCEPT !.i = i + 1]

RECURSIVE ParseLoop(_, _)
ParseLoop(tokens, st) ==
  IF st.i < Len(tokens) /\ ~st.threw
    THEN ParseLoop(tokens, ParseIteration(tokens, st))
    ELSE st

\* The loop state when parseODataExpression returns or raises.
ParseRun(expression) ==
  ParseLoop(tokenizeODataExpression(expression),
            [i |-> 0, filters |-> <<>>, threw |-> FALSE])

parseODataExpression(expression) == ParseRun(expression).filters

(***************************************************************************)
(* Server side: parseFilterQueryParams                                     *)
(***************************************************************************)

RECURSIVE LeadingSpaces(_)
LeadingSpaces(s) ==
  IF s # <<>> /\ Head(s) \in WhiteSpace THEN 1 + LeadingSpaces(Tail(s)) ELSE 0

\* The length of the match of /^\s+<word>\s+/i at the start of remaining, 0 when
\* there is none (word is given in lower case).
JoinerMatch(remaining, word) ==
  LET before == LeadingSpaces(remaining)
      rest == SliceFrom(remaining, before)
      after == LeadingSpaces(SliceFrom(rest, Len(word)))
  IN  IF /\ before >= 1
         /\ Len(rest) >= Len(word)
         /\ toLowerCase(SubSeq(rest, 1, Len(word))) = word
         /\ after >= 1
        THEN before + Len(word) + after
        ELSE 0

PART_AND == <<"A", "N", "D">>

PART_OR == <<"O", "R">>

\* parts after `if (current.trim()) { parts.push(current.trim()); parts.push(m) }`
PushPart(parts, current, marker) ==
  IF trim(current) # <<>> THEN parts \o <<trim(current), marker>> ELSE parts

SplitIteration_OrKeepsCurrent(filterExpression, st) ==
  LET remaining == SliceFrom(filterExpression, st.i)
      andMatch == JoinerMatch(remaining, <<"a", "n", "d">>)
      orMatch == JoinerMatch(remaining, <<"o", "r">>)
  IN  IF andMatch > 0
        THEN [i |-> st.i + andMatch,
              current |-> ResetIfPushed(st.current),
              parts |-> PushPart(st.parts, st.current, PART_AND)]
      ELSE IF orMatch > 0
        THEN [i |-> st.i + orMatch,
              current |-> st.current,
              parts |-> PushPart(st.parts, st.current, PART_OR)]
      ELSE [i |-> st.i + 1,
            current |-> Append(st.current, filterExpression[st.i + 1]),
            parts |-> st.parts]

\* One iteration of the splitting loop, from [i, current, parts] with
\* i < filterExpression.length (i is 0-based).
SplitIteration(filterExpression, st) ==
  LET remaining == SliceFrom(filterExpression, st.i)
      andMatch == JoinerMatch(remaining, <<"a", "n", "d">>)
      orMatch == JoinerMatch(remaining, <<"o", "r">>)
  IN  IF andMatch > 0
        THEN [i |-> st.i + andMatch,
              current |-> ResetIfPushed(st.current),
              parts |-> PushPart(st.parts, st.current, PART_AND)]
      ELSE IF orMatch > 0
        THEN [i |-> st.i + orMatch,
              current |-> ResetIfPushed(st.current),
              parts |-> PushPart(st.parts, st.current, PART_OR)]
      ELSE [i |-> st.i + 1,
            current |-> Append(st.current, filterExpression[st.i + 1]),
            parts |-> st.parts]

RECURSIVE SplitLoop(_, _)
SplitLoop(filterExpression, st) ==
  IF st.i < Len(filterExpression)
    THEN SplitLoop(filterExpression, SplitIteration(filterExpression, st))
    ELSE st

\* The parts array after the loop and the final push.
SplitParts(filterExpression) ==
  LET st == SplitLoop(filterExpression, [i |-> 0, current |-> <<>>, parts |-> <<>>])
  IN  IF trim(st.current) # <<>> THEN Append(st.parts, trim(st.current)) ELSE st.parts

\* The for loop over parts from the state [filters, threw]: allFilters and
\* whether a parseODataExpression call raised (the loop catches nothing).
RECURSIVE ParsePartsFrom(_, _)
ParsePartsFrom(parts, run) ==
  IF parts = <<>> \/ run.threw THEN run
  ELSE IF Head(parts) # PART_AND /\ Head(parts) # PART_OR
    THEN LET r == ParseRun(Head(parts))
         IN  ParsePartsFrom(Tail(parts),
               [filters |-> run.filters \o r.filters, threw |-> r.threw])
  ELSE ParsePartsFrom(Tail(parts), run)

\* allFilters after the for loop over parts.
ParseParts(parts) ==
  ParsePartsFrom(parts, [filters |-> <<>>, threw |-> FALSE]).filters

\* JavaScript truthiness of a value (arrays and dates are objects: truthy).
Truthy(v) ==
  CASE v.t \in {"null", "undefined"} -> FALSE
    [] v.t = "string" -> v.s # <<>>
    [] v.t = "number" -> v.n # 0
    [] v.t = "boolean" -> v.b
    [] OTHER -> TRUE

\* One call of parseFilterQueryParams: [filters, threw].  q is the value of
\* query['filter'] (Undefined when the key is absent).
ParseQueryRun(q) ==
  IF ~Truthy(q) \/ q.t # "string"
    THEN [filters |-> <<>>, threw |-> FALSE]
    ELSE ParsePartsFrom(SplitParts(q.s), [filters |-> <<>>, threw |-> FALSE])

\* The array parseFilterQueryParams(q) returns.
parseFilterQueryParams(q) == ParseQueryRun(q).filters

(***************************************************************************)
(* Client side: serializer                                                 *)
(***************************************************************************)

\* String(v) and `${v}`: the JavaScript string conversion.  An array converts
\* to its elements joined by ","; null and undefined elements of an array
\* convert to the empty text.  (Date.prototype.toString is not modelled.)
RECURSIVE StringOf(_)
StringOf(v) ==
  CASE v.t = "string" -> v.s
    [] v.t = "number" -> NumberToString(v.n)
    [] v.t = "boolean" -> IF v.b THEN <<"t", "r", "u", "e">>
                                 ELSE <<"f", "a", "l", "s", "e">>
    [] v.t = "null" -> <<"n", "u", "l", "l">>
    [] v.t = "undefined" -> <<"u", "n", "d", "e", "f", "i", "n", "e", "d">>
    [] v.t = "array" ->
         join([j \in 1..Len(v.a) |->
                 IF v.a[j].t \in {"null", "undefined"} THEN <<>>
                 ELSE StringOf(v.a[j])],
              <<",">>)

Quoted(x) == <<"'">> \o DoubleQuotes(x) \o <<"'">>

\* The callback of value.map in formatFilterValue.
FormatArrayElement(v) ==
  IF v.t = "string" /\ (includes(v.s, " ") \/ includes(v.s, "'") \/ includes(v.s, "\""))
    THEN Quoted(v.s)
  ELSE IF v.t = "string" THEN v.s
  ELSE StringOf(v)

NeedsQuotes_NoAt(x) ==
  includes(x, " ") \/ includes(x, "'") \/ includes(x, "\"")

\* The test that decides whether a scalar string is quoted.
NeedsQuotes(x) ==
  includes(x, " ") \/ includes(x, "'") \/ includes(x, "\"") \/ includes(x, "@")

formatFilterValue(value) ==
  IF value.t \in {"null", "undefined"} THEN <<"n", "u", "l", "l">>
  ELSE IF value.t = "array"
    THEN <<"(">>
           \o join([j \in 1..Len(value.a) |-> FormatArrayElement(value.a[j])],
                   <<",", " ">>)
           \o <<")">>
  ELSE IF value.t = "boolean" THEN StringOf(value)
  ELSE IF value.t = "date" THEN value.s
  ELSE IF value.t = "string"
    THEN IF NeedsQuotes(value.s) THEN Quoted(value.s) ELSE value.s
  ELSE StringOf(value)

filterToODataExpression(filter) ==
  IF filter.operator = OP_IS_NULL
    THEN filter.prop \o <<" ", "i", "s", "N", "u", "l", "l">>
  ELSE IF filter.operator = OP_IS_NOT_NULL
    THEN filter.prop \o <<" ", "i", "s", "N", "o", "t", "N", "u", "l", "l">>
  ELSE filter.prop \o <<" ">> \o filter.operator \o <<" ">>
         \o formatFilterValue(filter.value)

KEY_FILTER == <<"f", "i", "l", "t", "e", "r">>

JoinedExpressions(fs, logicalOp) ==
  join([j \in 1..Len(fs) |-> filterToODataExpression(fs[j])],
       <<" ">> \o logicalOp \o <<" ">>)

buildFilterQueryParams_NoEmptyCheck(fs, logicalOp) ==
  <<[key |-> KEY_FILTER, value |-> JoinedExpressions(fs, logicalOp)]>>

\* The returned object, as the sequence of its [key, value] entries.
buildFilterQueryParams(fs, logicalOp) ==
  IF Len(fs) = 0 THEN <<>>
  ELSE <<[key |-> KEY_FILTER, value |-> JoinedExpressions(fs, logicalOp)]>>

\* buildFilterQueryParams(fs, logicalOp).filter
FilterParam(params) == IF params = <<>> THEN Undefined ELSE Str(params[1].value)

\* encodeURIComponent on one character: letters, digits and - _ . ! ~ * ' ( )
\* are kept, the other characters of the ASCII range (all but the grave
\* accent are listed) are percent-encoded.
EncodeChar(c) ==
  CASE c = " " -> <<"%", "2", "0">> [] c = "\"" -> <<"%", "2", "2">>
    [] c = "#" -> <<"%", "2", "3">> [] c = "$" -> <<"%", "2", "4">>
    [] c = "%" -> <<"%", "2", "5">> [] c = "&" -> <<"%", "2", "6">>
    [] c = "+" -> <<"%", "2", "B">> [] c = "," -> <<"%", "2", "C">>
    [] c = "/" -> <<"%", "2", "F">> [] c = ":" -> <<"%", "3", "A">>
    [] c = ";" -> <<"%", "3", "B">> [] c = "<" -> <<"%", "3", "C">>
    [] c = "=" -> <<"%", "3", "D">> [] c = ">" -> <<"%", "3", "E">>
    [] c = "?" -> <<"%", "3", "F">> [] c = "@" -> <<"%", "4", "0">>
    [] c = "[" -> <<"%", "5", "B">> [] c = "\\" -> <<"%", "5", "C">>
    [] c = "]" -> <<"%", "5", "D">> [] c = "^" -> <<"%", "5", "E">>
    [] c = "{" -> <<"%", "7", "B">>
    [] c = "|" -> <<"%", "7", "C">> [] c = "}" -> <<"%", "7", "D">>
    [] c = "\t" -> <<"%", "0", "9">> [] c = "\n" -> <<"%", "0", "A">>
    [] c = "\r" -> <<"%", "0", "D">>
    [] OTHER -> <<c>>

RECURSIVE encodeURIComponent(_)
encodeURIComponent(s) ==
  IF s = <<>> THEN <<>> ELSE EncodeChar(Head(s)) \o encodeURIComponent(Tail(s))

buildFilterQueryString(fs, logicalOp) ==
  LET params == buildFilterQueryParams(fs, logicalOp) IN
  join([j \in 1..Len(params) |->
          encodeURIComponent(params[j].key) \o <<"=">>
            \o encodeURIComponent(params[j].value)],
       <<"&">>)

(***************************************************************************)
(* Server side: translator to FindOptionsWhere.  A FindOperator is          *)
(* [type, value, child]; child holds the wrapped operator of Not(...).      *)
(***************************************************************************)

FindOp(type, value) == [type |-> type, value |-> value, child |-> <<>>]

Equal(value) == FindOp("equal", value)

MoreThan(value) == FindOp("moreThan", value)

MoreThanOrEqual(value) == FindOp("moreThanOrEqual", value)

LessThan(value) == FindOp("lessThan", value)

LessThanOrEqual(value) == FindOp("lessThanOrEqual", value)

Like(value) == FindOp("like", value)

In(value) == FindOp("in", value)

IsNull == FindOp("isNull", Undefined)

Not(child) == [type |-> "not", value |-> Undefined, child |-> <<child>>]

SetKey_KeepFirst(w, prop, operator) ==
  [p \in DOMAIN w \cup {prop} |-> IF p \in DOMAIN w THEN w[p] ELSE operator]

\* where after `where[prop] = operator`
SetKey(w, prop, operator) ==
  [p \in DOMAIN w \cup {prop} |-> IF p = prop THEN operator ELSE w[p]]

IsNullValue_Never(value) == FALSE

\* value === null
IsNullValue(value) == value.t = "null"

IsNonEmptyArray_NoLength(value) == value.t = "array"

\* Array.isArray(value) && value.length > 0
IsNonEmptyArray(value) == value.t = "array" /\ Len(value.a) > 0

\* The callback of filters.forEach: where after one filter.
ConvertFilter(w, filter) ==
  LET prop == filter.prop
      operator == filter.operator
      value == filter.value
  IN CASE operator = OP_EQ ->
            IF IsNullValue(value) THEN SetKey(w, prop, IsNull)
            ELSE SetKey(w, prop, Equal(value))
       [] operator = OP_NE ->
            IF IsNullValue(value) THEN SetKey(w, prop, Not(IsNull))
            ELSE SetKey(w, prop, Not(Equal(value)))
       [] operator = OP_GT -> SetKey(w, prop, MoreThan(value))
       [] operator = OP_GE -> SetKey(w, prop, MoreThanOrEqual(value))
       [] operator = OP_LT -> SetKey(w, prop, LessThan(value))
       [] operator = OP_LE -> SetKey(w, prop, LessThanOrEqual(value))
       [] operator = OP_CONTAINS ->
            SetKey(w, prop, Like(Str(<<"%">> \o StringOf(value) \o <<"%">>)))
       [] operator = OP_STARTSWITH ->
            SetKey(w, prop, Like(Str(StringOf(value) \o <<"%">>)))
       [] operator = OP_ENDSWITH ->
            SetKey(w, prop, Like(Str(<<"%">> \o StringOf(value))))
       [] operator = OP_IN ->
            IF IsNonEmptyArray(value) THEN SetKey(w, prop, In(value)) ELSE w
       [] operator = OP_NOT_IN ->
            IF IsNonEmptyArray(value) THEN SetKey(w, prop, Not(In(value))) ELSE w
       [] operator = OP_IS_NULL -> SetKey(w, prop, IsNull)
       [] operator = OP_IS_NOT_NULL -> SetKey(w, prop, Not(IsNull))
       [] OTHER -> SetKey(w, prop, Equal(value))

\* const where: any = {}
EmptyWhere == [p \in {} |-> IsNull]

RECURSIVE ConvertFrom(_, _, _)
ConvertFrom(w, fs, j) ==
  IF j > Len(fs) THEN w ELSE ConvertFrom(ConvertFilter(w, fs[j]), fs, j + 1)

convertFiltersToFindOptionsWhere(fs) == ConvertFrom(EmptyWhere, fs, 1)

(***************************************************************************)
(* Inputs                                                                  *)
(***************************************************************************)

MaxFilters == 2

MaxTriplets == 2

MaxListLen == 2

S_age == <<"a", "g", "e">>

S_role == <<"r", "o", "l", "e">>

S_active == <<"a", "c", "t", "i", "v", "e">>

S_admin == <<"a", "d", "m", "i", "n">>

S_editor == <<"e", "d", "i", "t", "o", "r">>

S_18 == <<"1", "8">>

S_bogus == <<"b", "o", "g", "u", "s">>

S_and == <<"a", "n", "d">>

S_or == <<"o", "r">>

Props == {S_age, S_role}

Descriptor(prop, operator, value) ==
  [prop |-> prop, operator |-> operator, value |-> value]

\* Every sequence of 0..maxLen elements of which at most one is drawn from Full
\* and the others from Base.
OneFree(Full, Base, maxLen) ==
  {<<>>} \cup
  UNION {{[b EXCEPT ![i] = x] : i \in 1..n, x \in Full, b \in [1..n -> Base]} :
           n \in 1..maxLen}

\* Values a client passes to the serializer.
ClientValues ==
  {Null, Undefined, Bool(TRUE), Bool(FALSE), Num(18), Num(0),
   Str(S_active), Str(S_18), Str(<<"a", "@", "b">>), Str(<<"a", " ", "b">>),
   Str(<<"O", "'", "B">>), Str(<<"a", "\"", "b">>), Str(<<>>),
   Arr(<<>>), Arr(<<Str(S_admin)>>), Arr(<<Str(S_admin), Str(S_editor)>>),
   Arr(<<Num(1), Num(2)>>), Arr(<<Str(<<"a", " ", "b">>), Str(S_admin)>>),
   DateVal(<<"2", "0", "2", "0", "-", "0", "1", "-", "0", "2", "T", "0", "3",
             ":", "0", "4", ":", "0", "5", ".", "0", "0", "6", "Z">>)}

ClientFilters ==
  {Descriptor(p, o, v) : p \in Props, o \in FilterOperator, v \in ClientValues}

BaseFilters ==
  {Descriptor(S_age, OP_GT, Num(18)), Descriptor(S_role, OP_EQ, Str(S_active))}

ClientInputs == OneFree(ClientFilters, BaseFilters, MaxFilters)

\* Operator tokens of hand-written expressions.
OperatorTokens ==
  FilterOperator \cup {S_bogus, <<"E", "Q">>, <<"n", "o", "t", "i", "n">>}

\* A written triplet: prop, operator token and a value that is absent
\* ("none"), one token ("single") or a bracketed list ("list").
ListElements == {S_admin, S_editor}

ListsOf(n) == [1..n -> ListElements]

WrittenValues ==
  {[form |-> "none", elems |-> <<>>]}
    \cup {[form |-> "single", elems |-> <<e>>] : e \in {S_18, S_active}}
    \cup UNION {{[form |-> "list", elems |-> l] : l \in ListsOf(n)} :
                  n \in 1..MaxListLen}

Triplet(prop, op, v) == [prop |-> prop, op |-> op, form |-> v.form, elems |-> v.elems]

WrittenTriplets ==
  {Triplet(p, o, v) : p \in Props, o \in OperatorTokens, v \in WrittenValues}

BaseTriplets ==
  {Triplet(S_age, OP_GT, [form |-> "single", elems |-> <<S_18>>]),
   Triplet(S_role, OP_EQ, [form |-> "single", elems |-> <<S_active>>])}

WrittenInputs == OneFree(WrittenTriplets, BaseTriplets, MaxTriplets) \ {<<>>}

\* The text of one written triplet: `prop op`, `prop op value` or
\* `prop op (e1, e2, ...)`.
TripletText(t) ==
  t.prop \o <<" ">> \o t.op \o
    (CASE t.form = "none" -> <<>>
       [] t.form = "single" -> <<" ">> \o t.elems[1]
       [] t.form = "list" -> <<" ", "(">> \o join(t.elems, <<",", " ">>) \o <<")">>)

WrittenExpression(ts, word) ==
  join([j \in 1..Len(ts) |-> TripletText(ts[j])], <<" ">> \o word \o <<" ">>)

\* The logicalOperator argument of the serializer: 'and' | 'or'.
LogicalOperators == {S_and, S_or}

\* The words between the triplets of a hand-written expression; with the empty
\* word the triplets are only separated by white space.
JoinerWords == {S_and, S_or, <<"A", "N", "D">>, <<"O", "r">>, <<>>}

\* Requests whose filter parameter is absent, empty or not a string.
OddQueries ==
  {Undefined, Null, Str(<<>>), Num(0), Num(5), Bool(TRUE),
   Arr(<<Str(<<"a", "g", "e", " ", "g", "t", " ", "1", "8">>)>>)}

\* Values and operators of filters passed to the translator directly.
CallValues ==
  {Null, Num(18), Str(S_active), Bool(TRUE), Arr(<<>>),
   Arr(<<Str(S_admin), Str(S_editor)>>)}

CallFilters ==
  {Descriptor(p, o, v) :
     p \in Props, o \in FilterOperator \cup {S_bogus}, v \in CallValues}

CallInputs == OneFree(CallFilters, BaseFilters, MaxFilters)

(***************************************************************************)
(* The state machine: a client serializes D, or a request arrives with a   *)
(* hand-written filter, or the translator is called directly; the server   *)
(* parses the request and translates the filters one by one.               *)
(***************************************************************************)

InitClient ==
  /\ source = "client"
  /\ pc = "client"
  /\ D \in ClientInputs
  /\ written = <<>>
  /\ logicalOperator \in LogicalOperators
  /\ query = Undefined
  /\ filterString = <<>>
  /\ filters = <<>>

InitRequest ==
  /\ source = "request"
  /\ pc = "request"
  /\ D = <<>>
  /\ \/ /\ written \in WrittenInputs
        /\ logicalOperator \in JoinerWords
        /\ query = Str(WrittenExpression(written, logicalOperator))
     \/ /\ written = <<>>
        /\ logicalOperator = S_and
        /\ query \in OddQueries
  /\ filterString = <<>>
  /\ filters = <<>>

InitCall ==
  /\ source = "call"
  /\ pc = "parsed"
  /\ D = <<>>
  /\ written = <<>>
  /\ logicalOperator = S_and
  /\ query = Undefined
  /\ filterString = <<>>
  /\ filters \in CallInputs

Init ==
  /\ InitClient \/ InitRequest \/ InitCall
  /\ k = 0
  /\ where = EmptyWhere
  /\ OutsideFilter

\* The client calls buildFilterQueryParams and buildFilterQueryString.
Build ==
  /\ pc = "client"
  /\ query' = FilterParam(buildFilterQueryParams(D, logicalOperator))
  /\ filterString' = buildFilterQueryString(D, logicalOperator)
  /\ pc' = "request"
  /\ UNCHANGED <<source, D, written, logicalOperator, filters, k, where>>
  /\ UNCHANGED nonFilterVars

\* The server calls parseFilterQueryParams(query), which returns the filters
\* or raises.
Parse ==
  /\ pc = "request"
  /\ LET run == ParseQueryRun(query)
     IN  IF run.threw
           THEN filters' = filters /\ pc' = "threw"
           ELSE filters' = run.filters /\ pc' = "parsed"
  /\ UNCHANGED <<source, D, written, logicalOperator, query, filterString, k, where>>
  /\ UNCHANGED nonFilterVars

\* One call of the forEach callback of convertFiltersToFindOptionsWhere.
ConvertStep ==
  /\ pc = "parsed"
  /\ k < Len(filters)
  /\ where' = ConvertFilter(where, filters[k + 1])
  /\ k' = k + 1
  /\ UNCHANGED <<source, pc, D, written, logicalOperator, query, filterString, filters>>
  /\ UNCHANGED nonFilterVars

\* convertFiltersToFindOptionsWhere returns where.
ConvertReturn ==
  /\ pc = "parsed"
  /\ k = Len(filters)
  /\ pc' = "done"
  /\ UNCHANGED <<source, D, written, logicalOperator, query, filterString, filters, k, where>>
  /\ UNCHANGED nonFilterVars

Next == Build \/ Parse \/ ConvertStep \/ ConvertReturn

Spec == Init /\ [][Next]_vars

(***************************************************************************)
(* Malformed requests: the filter parameter is any text within MaxEdits    *)
(* one-character edits (a deletion, or an insertion of a quote, bracket,   *)
(* comma, blank or backslash) of a well-formed expression.                 *)
(***************************************************************************)

MaxEdits == 1

BaseExpressions ==
  {<<"a", " ", "i", "n", " ", "(", "b", ",", " ", "'", "c", " ", "d", "'", ")">>,
   <<"a", " ", "e", "q", " ", "'", "b", "'", " ", "a", "n", "d", " ",
     "c", " ", "g", "t", " ", "1">>}

EditChars == {"'", "\"", "(", ")", ",", " ", "\\"}

Deletions(s) ==
  {SubSeq(s, 1, p - 1) \o SubSeq(s, p + 1, Len(s)) : p \in 1..Len(s)}

Insertions(s) ==
  {SubSeq(s, 1, p) \o <<c>> \o SubSeq(s, p + 1, Len(s)) :
     p \in 0..Len(s), c \in EditChars}

RECURSIVE Edited(_, _)
Edited(S, n) ==
  IF n = 0 THEN S
  ELSE Edited(S \cup UNION {Deletions(s) \cup Insertions(s) : s \in S}, n - 1)

RawExpressions == Edited(BaseExpressions, MaxEdits)

InitRaw ==
  /\ source = "raw"
  /\ pc = "request"
  /\ D = <<>>
  /\ written = <<>>
  /\ logicalOperator = S_and
  /\ query \in {Str(e) : e \in RawExpressions}
  /\ filterString = <<>>
  /\ filters = <<>>
  /\ k = 0
  /\ where = EmptyWhere
  /\ OutsideFilter

NextRaw == Parse \/ ConvertStep \/ ConvertReturn

SpecRaw == InitRaw /\ [][NextRaw]_vars

(***************************************************************************)
(* Requests with one triplet whose value is any value token: bare words,   *)
(* number texts, quoted spans (with blanks, joiner words, brackets, the    *)
(* other quote character, doubled and backslash-preceded quotes) and       *)
(* bracketed lists written with blanks around the commas and brackets.     *)
(***************************************************************************)

BareTokens ==
  {<<"n", "u", "l", "l">>,
   <<"t", "r", "u", "e">>,
   <<"f", "a", "l", "s", "e">>,
   <<"1", "8">>,
   <<"-", "5">>,
   <<"1", "e", "3">>,
   <<"0", "x", "1", "0">>,
   <<"I", "n", "f", "i", "n", "i", "t", "y">>,
   <<"a", "c", "t", "i", "v", "e">>,
   <<"N", "U", "L", "L">>,
   <<"T", "r", "u", "e">>,
   <<"1", "8", "p", "x">>}

QuotedTokens ==
  {<<"'", "n", "u", "l", "l", "'">>,
   <<"\"", "t", "r", "u", "e", "\"">>,
   <<"'", "1", "8", "'">>,
   <<"'", "'">>,
   <<"'", "a", " ", "b", "'">>,
   <<"'", "a", " ", "a", "n", "d", " ", "b", "'">>,
   <<"\"", "x", " ", "o", "r", " ", "y", "\"">>,
   <<"'", "O", "'", "'", "B", "'">>,
   <<"\"", "O", "'", "'", "B", "\"">>,
   <<"'", "a", "(", "b", ")", "'">>,
   <<"'", "a", "\"", "b", "'">>,
   <<"\"", "a", "'", "b", "\"">>,
   <<"'", "a", "\\", "'", "b", "'">>,
   <<"'", "o", "r", "'">>}

OddTokens ==
  {<<"'", "a">>,
   <<"a", "'", "b", "'">>,
   <<"'", "a", "\"">>}

ValueTokens == BareTokens \cup QuotedTokens \cup OddTokens

ListTokens ==
  {<<"n", "u", "l", "l">>,
   <<"'", "n", "u", "l", "l", "'">>,
   <<"t", "r", "u", "e">>,
   <<"1", "8">>,
   <<"0", "x", "1", "0">>,
   <<"a", "c", "t", "i", "v", "e">>,
   <<"'", "a", " ", "b", "'">>,
   <<"'", "'">>}

ValueForms ==
  {[form |-> "single", elems |-> <<e>>] : e \in ValueTokens}
    \cup UNION {{[form |-> "spaced", elems |-> l] : l \in [1..n -> ListTokens]} :
                  n \in 1..MaxListLen}

\* The text of the triplet: `prop op value` or `prop op ( e1 , e2 )`.
ValueText(t) ==
  t.prop \o <<" ">> \o t.op \o
    (IF t.form = "single" THEN <<" ">> \o t.elems[1]
     ELSE <<" ", "(", " ">> \o join(t.elems, <<" ", ",", " ">>) \o <<" ", ")">>)

InitValues ==
  /\ source = "value"
  /\ pc = "request"
  /\ D = <<>>
  /\ \E v \in ValueForms, o \in {OP_EQ, OP_IN} :
       written = <<Triplet(S_age, o, v)>>
  /\ logicalOperator = S_and
  /\ query = Str(ValueText(written[1]))
  /\ filterString = <<>>
  /\ filters = <<>>
  /\ k = 0
  /\ where = EmptyWhere
  /\ OutsideFilter

SpecValues == InitValues /\ [][NextRaw]_vars

(***************************************************************************)
(* Properties                                                              *)
(***************************************************************************)

Parsed == pc \in {"parsed", "done"}

IsScalar(v) == v.t \in {"number", "boolean", "null", "string"}

NoQuoteChars(v) == v.t = "string" => ~includes(v.s, "'") /\ ~includes(v.s, "\"")

\* The values of the round-trip claim: numbers, booleans, null, strings and
\* arrays of such scalars, none with an embedded quote character.
RoundTripValue(v) ==
  \/ IsScalar(v) /\ NoQuoteChars(v)
  \/ /\ v.t = "array"
     /\ \A j \in 1..Len(v.a) : IsScalar(v.a[j]) /\ NoQuoteChars(v.a[j])

\* C1: round trip.  Parsing the filter parameter the serializer built for D
\* returns D, field for field and in the same order, for every D whose values
\* are numbers, booleans, null, strings or arrays of such scalars with no
\* embedded quote character.
C1_RoundTrip ==
  (/\ source = "client"
   /\ Parsed
   /\ \A j \in 1..Len(D) : RoundTripValue(D[j].value))
    => filters = D

\* The value the claims expect for a bare value token: a decimal token is a
\* number, a bare identifier a string.
Coerced(e) == IF IsDigitRun(e, 10) THEN Num(DigitsValue(e, 10)) ELSE Str(e)

ExpectedOfTriplet(t) ==
  Descriptor(t.prop, t.op,
             IF t.form = "none" THEN Null
             ELSE IF t.form = "single" THEN Coerced(t.elems[1])
             ELSE Arr([j \in 1..Len(t.elems) |-> Coerced(t.elems[j])]))

\* A well-formed triplet `<prop> <operator> <value>`: the operator is a
\* FilterOperator that takes a value and the value is one bare token.
WellFormedTriplet(t) ==
  t.form = "single" /\ t.op \in FilterOperator \ {OP_IS_NULL, OP_IS_NOT_NULL}

\* C2: parsing n >= 1 well-formed triplets joined by ` and ` returns exactly n
\* descriptors, in the order of the triplets, each with the prop as written,
\* the operator and the coerced value.
C2_TripletsParsed ==
  (/\ source = "request"
   /\ Parsed
   /\ written # <<>>
   /\ logicalOperator = S_and
   /\ \A j \in 1..Len(written) : WellFormedTriplet(written[j]))
    => filters = [j \in 1..Len(written) |-> ExpectedOfTriplet(written[j])]

\* C3: parsing `<prop> in (e1, ..., en)` with n >= 1 bare elements yields
\* exactly one descriptor with operator `in` whose value is the n-element
\* array of the parsed elements, in order, with no extra or empty element.
C3_InListParsed ==
  (/\ source = "request"
   /\ Parsed
   /\ Len(written) = 1
   /\ written[1].op = OP_IN
   /\ written[1].form = "list")
    => filters = <<ExpectedOfTriplet(written[1])>>

\* C4: `<prop> isNull` and `<prop> isNotNull` yield one descriptor with value
\* null without consuming a third token, so that a following triplet of the
\* same expression is still parsed.
C4_NullOperatorsParsed ==
  (/\ source = "request"
   /\ Parsed
   /\ written # <<>>
   /\ written[1].form = "none"
   /\ written[1].op \in {OP_IS_NULL, OP_IS_NOT_NULL}
   /\ \A j \in 2..Len(written) : written[j] \in BaseTriplets)
    => filters = [j \in 1..Len(written) |-> ExpectedOfTriplet(written[j])]

\* The triplets the parser keeps: those whose operator token, lower-cased, is
\* a member of FilterOperator.
RECURSIVE KeptTriplets(_)
KeptTriplets(ts) ==
  IF ts = <<>> THEN <<>>
  ELSE IF toLowerCase(Head(ts).op) \in FilterOperator
    THEN <<Descriptor(Head(ts).prop, toLowerCase(Head(ts).op),
                      Coerced(Head(ts).elems[1]))>> \o KeptTriplets(Tail(ts))
  ELSE KeptTriplets(Tail(ts))

AllSingle(ts) == \A j \in 1..Len(ts) : ts[j].form = "single"

\* C5: a three-token triplet whose operator token is no FilterOperator is
\* dropped silently: it contributes no descriptor, the cursor passes its
\* three tokens, and the other triplets of the expression are returned.
C5_UnknownOperatorDropped ==
  (source = "request" /\ Parsed /\ written # <<>> /\ AllSingle(written))
    => filters = KeptTriplets(written)

C5_Witness ==
  /\ source = "request"
  /\ Parsed
  /\ Len(written) = 2
  /\ AllSingle(written)
  /\ written[1].op = S_bogus
  /\ logicalOperator = <<>>
  /\ filters = <<Descriptor(S_role, OP_EQ, Str(S_active))>>

\* C6: empty inputs give empty outputs: the serializer emits no filter
\* parameter and the empty query string for no descriptors, and the parser
\* returns no filter when the parameter is absent, empty or not a string.
C6_EmptyInEmptyOut ==
  /\ (source = "client" /\ pc # "client" /\ D = <<>>)
       => (query = Undefined /\ filterString = <<>>)
  /\ (source # "call" /\ Parsed /\ (query.t # "string" \/ query.s = <<>>))
       => filters = <<>>

C6_Witness ==
  /\ source = "client"
  /\ D = <<>>
  /\ pc = "parsed"
  /\ query = Undefined
  /\ filterString = <<>>
  /\ filters = <<>>

\* The text the claim expects for a scalar string value.
NeedsQuoting(x) ==
  \E j \in 1..Len(x) : x[j] \in {" ", "'", "\"", "@"}

ExpectedStringText(x) ==
  IF NeedsQuoting(x) THEN <<"'">> \o DoubleQuotes(x) \o <<"'">> ELSE x

\* C7: a scalar string value is rendered in single quotes, with every inner
\* single quote doubled, if and only if it contains a space, a single quote, a
\* double quote or @; otherwise it is rendered bare.
C7_StringQuoting ==
  (/\ source = "client"
   /\ pc # "client"
   /\ Len(D) = 1
   /\ D[1].value.t = "string"
   /\ D[1].operator \notin {OP_IS_NULL, OP_IS_NOT_NULL})
    => query = Str(D[1].prop \o <<" ">> \o D[1].operator \o <<" ">>
                     \o ExpectedStringText(D[1].value.s))

C7_Witness ==
  /\ source = "client"
  /\ pc = "request"
  /\ D = <<Descriptor(S_age, OP_EQ, Str(<<"a", "@", "b">>))>>
  /\ query = Str(<<"a", "g", "e", " ", "e", "q", " ", "'", "a", "@", "b", "'">>)

\* The predicate of the mapping table for one filter.
TablePredicate(f) ==
  LET v == f.value IN
  CASE f.operator = OP_EQ -> IF v = Null THEN IsNull ELSE Equal(v)
    [] f.operator = OP_NE -> IF v = Null THEN Not(IsNull) ELSE Not(Equal(v))
    [] f.operator = OP_GT -> MoreThan(v)
    [] f.operator = OP_GE -> MoreThanOrEqual(v)
    [] f.operator = OP_LT -> LessThan(v)
    [] f.operator = OP_LE -> LessThanOrEqual(v)
    [] f.operator = OP_CONTAINS -> Like(Str(<<"%">> \o StringOf(v) \o <<"%">>))
    [] f.operator = OP_STARTSWITH -> Like(Str(StringOf(v) \o <<"%">>))
    [] f.operator = OP_ENDSWITH -> Like(Str(<<"%">> \o StringOf(v)))
    [] f.operator = OP_IN -> In(v)
    [] f.operator = OP_NOT_IN -> Not(In(v))
    [] f.operator = OP_IS_NULL -> IsNull
    [] f.operator = OP_IS_NOT_NULL -> Not(IsNull)
    [] OTHER -> Equal(v)

\* The mapping w with the predicate x stored under the key p.
WithPredicate(w, p, x) ==
  [q \in DOMAIN w \cup {p} |-> IF q = p THEN x ELSE w[q]]

\* The last element of fs, among those that satisfy Keep, whose prop is p.
LastOn(fs, p, Keep(_)) ==
  fs[CHOOSE j \in 1..Len(fs) :
       /\ fs[j].prop = p
       /\ Keep(fs[j])
       /\ \A i \in (j + 1)..Len(fs) : ~(fs[i].prop = p /\ Keep(fs[i]))]

AnyFilter(f) == TRUE

\* A filter that writes a predicate: every filter but an in / notIn filter
\* whose value is empty or no array.
WritesPredicate(f) ==
  f.operator \in {OP_IN, OP_NOT_IN} => (f.value.t = "array" /\ f.value.a # <<>>)

\* C8 as stated: the predicate stored under every property p that occurs in
\* the filters is the translation of the last filter on p.
C8_LastFilterWins ==
  pc = "done" =>
    \A p \in {filters[j].prop : j \in 1..Len(filters)} :
      /\ p \in DOMAIN where
      /\ where[p] = TablePredicate(LastOn(filters, p, AnyFilter))

\* C8 as amended: the predicate stored under p is the translation of the last
\* filter on p that writes a predicate; nothing is stored under a property on
\* which no filter writes one.
C8_LastWriteWins ==
  pc = "done" =>
    /\ DOMAIN where =
         {filters[j].prop : j \in {i \in 1..Len(filters) : WritesPredicate(filters[i])}}
    /\ \A p \in DOMAIN where :
         where[p] = TablePredicate(LastOn(filters, p, WritesPredicate))

C8_Witness ==
  /\ pc = "done"
  /\ Len(filters) = 2
  /\ filters[1] = Descriptor(S_age, OP_GT, Num(18))
  /\ filters[2] = Descriptor(S_age, OP_EQ, Null)
  /\ where = WithPredicate(EmptyWhere, S_age, IsNull)

\* The filter the forEach callback has just been called with.
Visited == filters[k + 1]

C10_EmptinessGuard ==
  [][(k' = k + 1 /\ Visited.operator \in {OP_IN, OP_NOT_IN}) =>
       IF Visited.value.t = "array" /\ Visited.value.a # <<>>
         THEN where' = WithPredicate(where, Visited.prop,
                         IF Visited.operator = OP_IN THEN In(Visited.value)
                         ELSE Not(In(Visited.value)))
         ELSE where' = where]_vars

C10_Witness ==
  /\ pc = "parsed"
  /\ k = 2
  /\ filters[1] = Descriptor(S_age, OP_GT, Num(18))
  /\ filters[2] = Descriptor(S_age, OP_NOT_IN, Arr(<<>>))
  /\ where = WithPredicate(EmptyWhere, S_age, MoreThan(Num(18)))

\* The joiner words of the other kind: the spellings of `or` for a spelling of
\* `and`, and the reverse.
OtherJoiners(word) ==
  {w \in JoinerWords \ {<<>>} : toLowerCase(w) # toLowerCase(word)}

IsJoinerText(v) == v.t = "string" /\ toLowerCase(v.s) \in {S_and, S_or}

\* C11: or collapses into and.  Two expressions that differ only in the joiner
\* word between their triplets (and / or, in any letter case) parse to the
\* same descriptors, and no descriptor records the joiner: a descriptor has
\* the fields prop, operator and value only, none of them the joiner word.
C11_OrCollapsesIntoAnd ==
  (source = "request" /\ pc = "parsed" /\ k = 0 /\ written # <<>>
     /\ logicalOperator # <<>>)
    => /\ \A word \in OtherJoiners(logicalOperator) :
            filters = parseFilterQueryParams(Str(WrittenExpression(written, word)))
       /\ \A j \in 1..Len(filters) :
            /\ DOMAIN filters[j] = {"prop", "operator", "value"}
            /\ toLowerCase(filters[j].prop) \notin {S_and, S_or}
            /\ filters[j].operator \notin {S_and, S_or}
            /\ ~IsJoinerText(filters[j].value)

C11_Witness ==
  /\ source = "request"
  /\ pc = "parsed"
  /\ k = 0
  /\ logicalOperator = <<"O", "r">>
  /\ Len(written) = 2
  /\ filters = <<Descriptor(S_age, OP_GT, Num(18)),
                 Descriptor(S_role, OP_EQ, Str(S_active))>>

RECURSIVE TokenCount(_)
TokenCount(parts) ==
  IF parts = <<>> THEN 0
  ELSE Len(tokenizeODataExpression(Head(parts))) + TokenCount(Tail(parts))

HasThreeTokens(part) == Len(tokenizeODataExpression(part)) >= 3

IsDescriptor(f) ==
  /\ DOMAIN f = {"prop", "operator", "value"}
  /\ f.operator \in FilterOperator
  /\ f.value.t \in {"null", "boolean", "number", "string", "array"}

\* C12: silent degradation.  Whatever the text of the filter parameter
\* (unmatched quotes, unmatched or nested brackets, unknown operators, too few
\* tokens), parseFilterQueryParams raises nothing and returns a sequence of
\* descriptors, possibly empty; a segment of fewer than three tokens
\* contributes none: the result is that of the segments of three tokens or
\* more, and every descriptor takes at least three tokens.
C12_SilentDegradation ==
  /\ pc # "threw"
  /\ (source = "raw" /\ pc = "parsed" /\ k = 0)
       => /\ \A j \in 1..Len(filters) : IsDescriptor(filters[j])
          /\ filters = ParseParts(SelectSeq(SplitParts(query.s), HasThreeTokens))
          /\ 3 * Len(filters) <= TokenCount(SplitParts(query.s))

\* `a eq 'b' and c gt`: the second segment has two tokens.
C12_Witness ==
  /\ source = "raw"
  /\ pc = "parsed"
  /\ query = Str(<<"a", " ", "e", "q", " ", "'", "b", "'", " ", "a", "n", "d",
                   " ", "c", " ", "g", "t", " ">>)
  /\ filters = <<Descriptor(<<"a">>, OP_EQ, Str(<<"b">>))>>

\* C20: operator acceptance.  An expression `prop op value` whose op is one of
\* the thirteen FilterOperator values in its canonical spelling parses to one
\* descriptor carrying that operator, and every descriptor the parser returns
\* carries a FilterOperator value.
C20_OperatorAcceptance ==
  /\ (source = "request" /\ Parsed /\ Len(written) = 1
        /\ written[1].form = "single" /\ written[1].op \in FilterOperator)
       => (Len(filters) = 1 /\ filters[1].operator = written[1].op)
  /\ (source \in {"request", "client"} /\ Parsed)
       => \A j \in 1..Len(filters) : filters[j].operator \in FilterOperator

\* A token that is one quoted span: it opens with a quote character and the
\* only later occurrence of that character not preceded by a backslash is its
\* last character.
IsQuotedSpan(token) ==
  /\ Len(token) >= 2
  /\ token[1] \in {"'", "\""}
  /\ token[Len(token)] = token[1]
  /\ token[Len(token) - 1] # "\\"
  /\ \A j \in 2..(Len(token) - 1) : token[j] = token[1] => token[j - 1] = "\\"

\* The text has a joiner word with white space on both sides.
HasJoinerInside(text) ==
  \E j \in 0..Len(text) :
    JoinerMatch(SliceFrom(text, j), S_and) > 0
      \/ JoinerMatch(SliceFrom(text, j), S_or) > 0

\* C21: quoting is respected when splitting on joiners.  An expression
\* `prop eq <quoted>` whose quoted value holds a joiner word between blanks
\* parses to exactly one descriptor {prop, eq, content of the quotes}.
C21_QuotedJoinerKept ==
  (/\ source = "value"
   /\ pc # "request"
   /\ written[1].form = "single"
   /\ written[1].op = OP_EQ
   /\ IsQuotedSpan(written[1].elems[1])
   /\ HasJoinerInside(written[1].elems[1]))
    => (/\ pc # "threw"
        /\ filters = <<Descriptor(written[1].prop, OP_EQ,
                                  Str(SliceInner(written[1].elems[1])))>>)

\* C22: doubled-quote escaping round-trips.  A string value that holds a
\* single quote is serialized between single quotes with each quote doubled,
\* and parsing that text returns one descriptor whose value is the original
\* string.
C22_DoubledQuoteRoundTrip ==
  (/\ source = "client"
   /\ Parsed
   /\ Len(D) = 1
   /\ D[1].operator = OP_EQ
   /\ D[1].value.t = "string"
   /\ includes(D[1].value.s, "'"))
    => (/\ query = Str(D[1].prop \o <<" ", "e", "q", " ", "'">>
                         \o DoubleQuotes(D[1].value.s) \o <<"'">>)
        /\ filters = D)

\* The texts given to tokenizeODataExpression: the segments of the filter
\* parameter other than the markers AND and OR.
TokenizerCalls ==
  IF query.t = "string"
    THEN LET parts == SplitParts(query.s)
         IN  {parts[j] : j \in {x \in 1..Len(parts) :
                                  parts[x] \notin {PART_AND, PART_OR}}}
    ELSE {}

\* A quote character that is not preceded by a backslash.
UnescapedQuote(e, p) == e[p] \in {"'", "\""} /\ (p = 1 \/ e[p - 1] # "\\")

\* The least element of a non-empty set of numbers.
Least(S) == CHOOSE x \in S : \A y \in S : x <= y

\* The quoted spans of e from position p on, p being outside quotes: each is
\* [from, open, close], from the first quote character not preceded by a
\* backslash to the first later occurrence of the same character not preceded
\* by a backslash; from is where the scan for it began.
RECURSIVE QuotedSpans(_, _)
QuotedSpans(e, p) ==
  LET opens == {o \in p..Len(e) : UnescapedQuote(e, o)}
      open == Least(opens)
      closes == {c \in (open + 1)..Len(e) : e[c] = e[open] /\ e[c - 1] # "\\"}
  IN  IF opens = {} \/ closes = {} THEN <<>>
      ELSE <<[from |-> p, open |-> open, close |-> Least(closes)]>>
             \o QuotedSpans(e, Least(closes) + 1)

\* The text accumulated before the opening quote of a span: the longest run
\* of characters other than white space and brackets that ends right before it.
AccumulatedBefore(e, span) ==
  LET starts == {b \in span.from..span.open :
                   \A x \in b..(span.open - 1) :
                     e[x] \notin WhiteSpace \cup {"(", ")"}}
  IN  SubSeq(e, Least(starts), span.open - 1)

\* C23: tokenizer quoted spans.  A span that opens with a quote character
\* outside quotes and runs to the first later occurrence of the same
\* character not preceded by a backslash is exactly one token, equal to that
\* part of the text verbatim, and the text accumulated before its opening
\* quote is the token right before it.
C23_QuotedSpans ==
  (source = "value" /\ pc # "request") =>
    \A e \in TokenizerCalls :
      LET tokens == tokenizeODataExpression(e)
          spans == QuotedSpans(e, 1)
      IN  \A j \in 1..Len(spans) :
            LET span == spans[j]
                n == Len(tokenizeODataExpression(SubSeq(e, 1, span.open - 1))) + 1
                before == AccumulatedBefore(e, span)
            IN  /\ n <= Len(tokens)
                /\ tokens[n] = SubSeq(e, span.open, span.close)
                /\ before # <<>> => (n >= 2 /\ tokens[n - 1] = before)

\* `age eq 'a\'b'`: a backslash-preceded quote inside the span.
C23_Witness ==
  /\ source = "value"
  /\ pc = "parsed"
  /\ written[1].op = OP_EQ
  /\ written[1].elems = <<<<"'", "a", "\\", "'", "b", "'">>>>
  /\ filters = <<Descriptor(S_age, OP_EQ, Str(<<"a", "\\", "'", "b">>))>>

\* The tokens occur in e one after the other, from position p on.
RECURSIVE InOrder(_, _, _)
InOrder(e, tokens, p) ==
  IF tokens = <<>> THEN TRUE
  ELSE LET token == Head(tokens)
           at == {x \in p..(Len(e) - Len(token) + 1) :
                    SubSeq(e, x, x + Len(token) - 1) = token}
       IN  at # {} /\ InOrder(e, Tail(tokens), Least(at) + Len(token))

\* C24: tokenizer output shape.  Every token is non-empty; a token that does
\* not start with a quote character holds no white space and is exactly `(`
\* or `)` or holds no bracket; and the tokens appear in the order of their
\* first characters in the input.
C24_TokenShape ==
  (source = "value" /\ pc # "request") =>
    \A e \in TokenizerCalls :
      LET tokens == tokenizeODataExpression(e)
      IN  /\ \A j \in 1..Len(tokens) :
               /\ tokens[j] # <<>>
               /\ tokens[j][1] \notin {"'", "\""} =>
                    /\ \A x \in 1..Len(tokens[j]) : tokens[j][x] \notin WhiteSpace
                    /\ \/ tokens[j] \in {<<"(">>, <<")">>}
                       \/ \A x \in 1..Len(tokens[j]) :
                            tokens[j][x] \notin {"(", ")"}
          /\ InOrder(e, tokens, 1)

\* `age in ( 'a b' , 18 )`: bracket tokens, a quoted token with a blank and
\* bare tokens.
C24_Witness ==
  /\ source = "value"
  /\ pc = "parsed"
  /\ written[1].op = OP_IN
  /\ written[1].elems = <<<<"'", "a", " ", "b", "'">>, <<"1", "8">>>>
  /\ tokenizeODataExpression(query.s) =
       <<S_age, OP_IN, <<"(">>, <<"'", "a", " ", "b", "'">>, <<",">>,
         <<"1", "8">>, <<")">>>>
  /\ filters = <<Descriptor(S_age, OP_IN,
                            Arr(<<Str(<<"a", " ", "b">>), Num(18)>>))>>

\* A value token that reaches parseValue as written: a bare word, or one
\* quoted span with no joiner word between blanks in it.
ArrivesWhole(token) ==
  \/ /\ token # <<>>
     /\ \A x \in 1..Len(token) :
          token[x] \notin WhiteSpace \cup {"(", ")", "'", "\"", ","}
  \/ IsQuotedSpan(token) /\ ~HasJoinerInside(token) /\ ~includes(token, ",")

\* The token parseValue is called with for the written triplet: the value
\* token itself, or the list put together again as `(e1, e2)`.
WrittenValueToken ==
  IF written[1].form = "single" THEN written[1].elems[1]
  ELSE <<"(">> \o join(written[1].elems, <<",", " ">>) \o <<")">>

\* A decimal number text: an optional sign, digits, and optionally an
\* exponent of digits.
IsDecimalNumber(token) ==
  LET u == IF token # <<>> /\ token[1] \in {"+", "-"} THEN Tail(token) ELSE token
      digits == {"0", "1", "2", "3", "4", "5", "6", "7", "8", "9"}
      marks == {x \in 1..Len(u) : u[x] \in {"e", "E"}}
  IN  /\ u # <<>>
      /\ \A x \in 1..Len(u) : u[x] \in digits \cup {"e", "E"}
      /\ Cardinality(marks) <= 1
      /\ \A x \in marks : x > 1 /\ x < Len(u)

DecimalNumber(token) ==
  LET u == IF token[1] \in {"+", "-"} THEN Tail(token) ELSE token
      x == ExponentAt(u)
      mantissa == DigitsValue(IF x = 0 THEN u ELSE SubSeq(u, 1, x - 1), 10)
      scale == IF x = 0 THEN 1 ELSE Pow10(DigitsValue(SubSeq(u, x + 1, Len(u)), 10))
  IN  IF token[1] = "-" THEN 0 - mantissa * scale ELSE mantissa * scale

\* A 0x, 0o or 0b literal and the number it denotes.
IsPrefixedNumber(token) ==
  /\ Len(token) >= 3
  /\ token[1] = "0"
  /\ \/ token[2] \in {"x", "X"} /\ \A x \in 3..Len(token) : DigitVal(token[x]) < 16
     \/ token[2] \in {"o", "O"} /\ \A x \in 3..Len(token) : DigitVal(token[x]) < 8
     \/ token[2] \in {"b", "B"} /\ \A x \in 3..Len(token) : DigitVal(token[x]) < 2

PrefixedNumber(token) ==
  DigitsValue(SubSeq(token, 3, Len(token)),
              IF token[2] \in {"x", "X"} THEN 16
              ELSE IF token[2] \in {"o", "O"} THEN 8 ELSE 2)

\* v is the value the check order gives for the token; with prefixed = TRUE a
\* 0x, 0o or 0b literal counts as a number, with FALSE only a decimal does.
RECURSIVE IsValueOf(_, _, _)
IsValueOf(v, token, prefixed) ==
  IF token = <<"n", "u", "l", "l">> THEN v = Null
  ELSE IF /\ token # <<>>
          /\ token[1] \in {"'", "\""}
          /\ token[Len(token)] = token[1]
    THEN /\ v.t = "string"
         /\ (\A x \in 2..(Len(token) - 2) : ~(token[x] = "'" /\ token[x + 1] = "'"))
              => v = Str(SubSeq(token, 2, Len(token) - 1))
  ELSE IF token # <<>> /\ token[1] = "(" /\ token[Len(token)] = ")"
    THEN LET parts == split(SubSeq(token, 2, Len(token) - 1), ",")
         IN  /\ v.t = "array"
             /\ Len(v.a) = Len(parts)
             /\ \A j \in 1..Len(parts) : IsValueOf(v.a[j], trim(parts[j]), prefixed)
  ELSE IF token = <<"t", "r", "u", "e">> THEN v = Bool(TRUE)
  ELSE IF token = <<"f", "a", "l", "s", "e">> THEN v = Bool(FALSE)
  ELSE IF IsDecimalNumber(token) THEN v = Num(DecimalNumber(token))
  ELSE IF prefixed /\ IsPrefixedNumber(token) THEN v = Num(PrefixedNumber(token))
  ELSE v = Str(token)

\* The triplets whose value token reaches parseValue: `age eq <token>` and
\* `age in <token>` with a token that arrives whole, and `age in ( e1 , e2 )`.
ValueParsedAsWritten ==
  /\ source = "value"
  /\ Parsed
  /\ \A j \in 1..Len(written[1].elems) : ArrivesWhole(written[1].elems[j])
  /\ written[1].form = "spaced" => written[1].op = OP_IN

RECURSIVE IndexTrace(_, _, _)
IndexTrace(e, st, fuel) ==
  IF fuel = 0 \/ st.i >= Len(e) THEN <<st>>
  ELSE <<st>> \o IndexTrace(e, SplitIteration(e, st), fuel - 1)

\* The same for the cursor loop of parseODataExpression.
RECURSIVE CursorTrace(_, _, _)
CursorTrace(tokens, st, fuel) ==
  IF fuel = 0 \/ st.i >= Len(tokens) \/ st.threw THEN <<st>>
  ELSE <<st>> \o CursorTrace(tokens, ParseIteration(tokens, st), fuel - 1)

\* The iteration of the cursor loop at cursor i opens a bracketed in-list.
OpensList(tokens, i) ==
  /\ i + 3 < Len(tokens)
  /\ ~IsJoinerToken(tokens[i + 1])
  /\ toLowerCase(tokens[i + 2]) \in {OP_IN, OP_NOT_IN}
  /\ tokens[i + 3] = <<"(">>

\* The cursor moved from i to n as the claim says: by 1 past a joiner word, by
\* 3 past a triplet, past the closing bracket of a list or past the last
\* token when the list is not closed, by 1 when fewer than three tokens are
\* left.
Advanced(tokens, i, n) ==
  IF IsJoinerToken(tokens[i + 1]) THEN n = i + 1
  ELSE IF OpensList(tokens, i)
    THEN /\ n > i + 3
         /\ \A x \in (i + 4)..(n - 1) : tokens[x] # <<")">>
         /\ IF n <= Len(tokens) THEN tokens[n] = <<")">> ELSE n = Len(tokens) + 1
  ELSE IF i + 2 < Len(tokens) THEN n = i + 3
  ELSE n = i + 1

\* C30: parsing terminates.  Each iteration of the splitting loop of
\* parseFilterQueryParams moves its index forward by at least 1; each
\* iteration of the cursor loop of parseODataExpression that does not raise
\* moves the cursor forward by at least 1 (by 3 for a triplet, past the
\* closing bracket or to the end of the tokens for a bracketed in-list); so
\* neither loop runs more iterations than its input has characters or tokens.
C30_LoopsAdvance ==
  (source = "raw" /\ Parsed /\ query.t = "string") =>
    LET e == query.s
        indexes == IndexTrace(e, [i |-> 0, current |-> <<>>, parts |-> <<>>],
                              Len(e))
    IN  /\ \A x \in 1..(Len(indexes) - 1) : indexes[x + 1].i >= indexes[x].i + 1
        /\ indexes[Len(indexes)].i >= Len(e)
        /\ \A call \in TokenizerCalls :
             LET tokens == tokenizeODataExpression(call)
                 cursors == CursorTrace(tokens,
                              [i |-> 0, filters |-> <<>>, threw |-> FALSE],
                              Len(tokens))
                 last == cursors[Len(cursors)]
             IN  /\ \A x \in 1..(Len(cursors) - 1) :
                       cursors[x + 1].threw \/
                         /\ cursors[x + 1].i >= cursors[x].i + 1
                         /\ Advanced(tokens, cursors[x].i, cursors[x + 1].i)
                 /\ last.threw \/ last.i >= Len(tokens)

\* A request with a bracketed list that is not closed: the cursor ends one
\* past the last token.
C30_Witness ==
  /\ source = "raw"
  /\ Parsed
  /\ query.t = "string"
  /\ \E call \in TokenizerCalls :
       LET tokens == tokenizeODataExpression(call)
       IN  /\ OpensList(tokens, 0)
           /\ \A x \in 1..Len(tokens) : tokens[x] # <<")">>
           /\ ParseRun(call).i = Len(tokens) + 1
           /\ ParseRun(call).filters # <<>>

(***************************************************************************)
(* Frontend api-client: the cache of a BaseHttpService.  A response is the *)
(* version of the server's data it was computed from; a request is sent,   *)
(* handled by the server and then delivered to the client, so that calls   *)
(* and responses interleave.  The expiry of entries is not modelled.       *)
(***************************************************************************)

MaxCalls == 3

S_users == <<"u", "s", "e", "r", "s">>

S_all == <<"a", "l", "l">>

S_id1 == <<"i", "d", ":", "1">>

DEFAULT_CACHE_TTL == 300000

\* v ?? w
Coalesce(v, w) == IF v.t \in {"null", "undefined"} THEN w ELSE v

\* ttl ?? this.options?.cacheTtl ?? 300000
TtlMs(ttl, opts) == Coalesce(Coalesce(ttl, opts.cacheTtl), Num(DEFAULT_CACHE_TTL))

\* `${scope}:${suffix}`
CacheKey(scope, suffix) == scope \o <<":">> \o suffix

\* String.prototype.startsWith(prefix)
keyStartsWith(key, prefix) ==
  Len(key) >= Len(prefix) /\ SubSeq(key, 1, Len(prefix)) = prefix

\* scope && adapter
Configured(opts, adapter) == Truthy(opts.cacheScope) /\ adapter

\* The lifeSpan of entries stored without one: that of the CacheStaticLoader,
\* whose expiry is Number.MAX_VALUE.
LOADER_LIFESPAN == [expires |-> FALSE, TTL |-> DEFAULT_CACHE_TTL]

\* NgxCacheAdapter.get: the stored value, undefined when there is none.
AdapterGet(st, key) == IF key \in DOMAIN st THEN st[key].value ELSE Undefined

\* NgxCacheAdapter.set: lifeSpan = ttlMs ? {expiry: now + ttlMs, TTL: ttlMs}
\* : undefined, then cache.set(key, value, 0, lifeSpan).
AdapterSet(st, key, value, ttlMs) ==
  (key :> [value |-> value,
           lifeSpan |-> IF Truthy(ttlMs)
                          THEN [expires |-> TRUE, TTL |-> ttlMs.n]
                          ELSE LOADER_LIFESPAN]) @@ st

\* NgxCacheAdapter.removeByPrefix: cache.remove(prefix, true), which removes
\* the key and every key that starts with it.
AdapterRemoveByPrefix(st, prefix) ==
  [key \in {x \in DOMAIN st : ~keyStartsWith(x, prefix)} |-> st[key]]

\* invalidateCache(): the store afterwards.
InvalidateCache(st, opts, adapter) ==
  IF Configured(opts, adapter)
    THEN AdapterRemoveByPrefix(st, CacheKey(opts.cacheScope.s, <<>>))
    ELSE st

\* create, update, patch, delete of BaseHttpService and activate, deactivate
\* of UserService.
MutationOps == {"create", "update", "patch", "delete", "activate", "deactivate"}

CacheScopes == {Str(S_users), Str(<<>>), Undefined}

CacheTtls == {Undefined, Num(60000)}

TtlArguments == {Undefined, Num(0), Num(1000)}

Suffixes == {S_all, S_id1}

\* What the storage may hold from earlier sessions: an entry of the scope and
\* one of a scope whose name only begins alike.
StoredBefore ==
  LET old == [value |-> Num(0), lifeSpan |-> [expires |-> TRUE, TTL |-> 60000]]
  IN  (CacheKey(S_users, S_id1) :> old)
        @@ (CacheKey(S_users \o <<"X">>, S_all) :> old)

NoStore == [key \in {} |-> Undefined]

\* A request: for the request of a getCached miss, key and ttlMs are those the
\* tap callback holds and ttl is the argument getCached was called with.
Request(id, op, key, ttl, ttlMs, caches) ==
  [id |-> id, op |-> op, key |-> key, ttl |-> ttl, ttlMs |-> ttlMs,
   caches |-> caches, phase |-> "sent", data |-> Undefined]

\* A call or a response: value is the value getCached returned from the cache
\* or the data of the response, factory tells whether getCached invoked its
\* factory, ttl is the ttl argument of the getCached call.
Event(type, id, op, key, value) ==
  [type |-> type, id |-> id, op |-> op, key |-> key, value |-> value,
   factory |-> FALSE, ttl |-> Undefined]

NoAdapterCalls == [get |-> 0, set |-> 0, removeByPrefix |-> 0]

InitCache ==
  /\ OutsideCache
  /\ options \in [cacheScope : CacheScopes, cacheTtl : CacheTtls]
  /\ cacheAdapter \in BOOLEAN
  /\ Truthy(options.cacheScope) \/ cacheAdapter
  /\ store \in {NoStore, StoredBefore}
  /\ inflight = {}
  /\ issued = 0
  /\ serverVersion = 1
  /\ event = Event("none", 0, "none", <<>>, Undefined)
  /\ factoryCalls = 0
  /\ adapterCalls = NoAdapterCalls
  /\ invalidated = FALSE

\* A call of getCached(suffix, factory, ttl) whose result is subscribed to.
GetCached(suffix, ttl) ==
  /\ issued < MaxCalls
  /\ issued' = issued + 1
  /\ invalidated' = FALSE
  /\ LET id == issued + 1
         ttlMs == TtlMs(ttl, options)
         key == CacheKey(options.cacheScope.s, suffix)
         cached == AdapterGet(store, key)
         called == [Event("getCached", id, "get", key, Undefined)
                      EXCEPT !.ttl = ttl]
     IN  IF ~Configured(options, cacheAdapter)
           THEN /\ factoryCalls' = factoryCalls + 1
                /\ inflight' = inflight \cup
                                 {Request(id, "get", <<>>, Undefined, Undefined, FALSE)}
                /\ event' = [called EXCEPT !.key = <<>>, !.factory = TRUE,
                                           !.ttl = Undefined]
                /\ UNCHANGED adapterCalls
         ELSE IF cached # Undefined
           THEN /\ event' = [called EXCEPT !.value = cached, !.ttl = Undefined]
                /\ adapterCalls' = [adapterCalls EXCEPT !.get = @ + 1]
                /\ UNCHANGED <<factoryCalls, inflight>>
         ELSE /\ factoryCalls' = factoryCalls + 1
              /\ inflight' = inflight \cup {Request(id, "get", key, ttl, ttlMs, TRUE)}
              /\ event' = [called EXCEPT !.factory = TRUE]
              /\ adapterCalls' = [adapterCalls EXCEPT !.get = @ + 1]
  /\ UNCHANGED <<options, cacheAdapter, store, serverVersion>>
  /\ UNCHANGED nonCacheVars

\* A call of create, update, patch, delete, activate or deactivate whose
\* result is subscribed to.
Mutate(op) ==
  /\ issued < MaxCalls
  /\ issued' = issued + 1
  /\ inflight' = inflight \cup
                   {Request(issued + 1, op, <<>>, Undefined, Undefined, FALSE)}
  /\ event' = Event("call", issued + 1, op, <<>>, Undefined)
  /\ UNCHANGED <<options, cacheAdapter, store, serverVersion, factoryCalls,
                 adapterCalls, invalidated>>
  /\ UNCHANGED nonCacheVars

\* The server answers a request: a read returns the current version, a
\* mutation that succeeds makes the next one.
ServerHandle(r, ok) ==
  /\ r \in inflight
  /\ r.phase = "sent"
  /\ LET version == IF r.op = "get" THEN serverVersion ELSE serverVersion + 1
     IN  /\ inflight' = (inflight \ {r}) \cup
                          {[r EXCEPT !.phase = IF ok THEN "ok" ELSE "failed",
                                     !.data = IF ok THEN Num(version) ELSE Undefined]}
         /\ serverVersion' = IF ok THEN version ELSE serverVersion
  /\ UNCHANGED <<options, cacheAdapter, store, issued, event, factoryCalls,
                 adapterCalls, invalidated>>
  /\ UNCHANGED nonCacheVars

\* The response of a request reaches the client: the tap callbacks run on a
\* successful response only (adapter.set after a getCached miss,
\* invalidateCache after a mutation).
Deliver(r) ==
  /\ r \in inflight
  /\ r.phase # "sent"
  /\ inflight' = inflight \ {r}
  /\ event' = [Event(IF r.phase = "ok" THEN "response" ELSE "error",
                     r.id, r.op, r.key, r.data) EXCEPT !.ttl = r.ttl]
  /\ IF r.phase = "ok" /\ r.op = "get" /\ r.caches
       THEN /\ store' = AdapterSet(store, r.key, r.data, r.ttlMs)
            /\ adapterCalls' = [adapterCalls EXCEPT !.set = @ + 1]
            /\ UNCHANGED invalidated
     ELSE IF r.phase = "ok" /\ r.op \in MutationOps
       THEN /\ store' = InvalidateCache(store, options, cacheAdapter)
            /\ adapterCalls' =
                 IF Configured(options, cacheAdapter)
                   THEN [adapterCalls EXCEPT !.removeByPrefix = @ + 1]
                   ELSE adapterCalls
            /\ invalidated' = TRUE
     ELSE UNCHANGED <<store, adapterCalls, invalidated>>
  /\ UNCHANGED <<options, cacheAdapter, issued, serverVersion, factoryCalls>>
  /\ UNCHANGED nonCacheVars

NextCache ==
  \/ \E suffix \in Suffixes, ttl \in TtlArguments : GetCached(suffix, ttl)
  \/ \E op \in MutationOps : Mutate(op)
  \/ \E r \in inflight, ok \in BOOLEAN : ServerHandle(r, ok)
  \/ \E r \in inflight : Deliver(r)

SpecCache == InitCache /\ [][NextCache]_vars

\* The keys of the service's scope in the store.
ScopeKeys(st) ==
  {key \in DOMAIN st : keyStartsWith(key, CacheKey(options.cacheScope.s, <<>>))}

\* The step is a call of getCached, the delivery of a successful response, or
\* the delivery of an error.
IsGetCachedCall == issued' = issued + 1 /\ event'.type = "getCached"

IsResponse == inflight' # inflight /\ issued' = issued /\ event'.type = "response"

IsError == inflight' # inflight /\ issued' = issued /\ event'.type = "error"

\* C14: cache auto-invalidation.  With a cacheScope and an adapter, when a
\* successful response of create, update, patch, delete, activate or
\* deactivate is emitted no key of the scope is left in the cache, and the
\* next getCached call invokes its factory; a mutation that fails leaves the
\* cache as it was.
C14_AutoInvalidation ==
  [][Configured(options, cacheAdapter) =>
       /\ (IsResponse /\ event'.op \in MutationOps) => ScopeKeys(store') = {}
       /\ (IsGetCachedCall /\ invalidated) =>
            (event'.factory /\ factoryCalls' = factoryCalls + 1)
       /\ (IsError /\ event'.op \in MutationOps) => store' = store]_vars

\* The TTL of the claim: the argument, else cacheTtl, else 300000 ms.
ClaimedTtl(ttl) ==
  IF ttl # Undefined THEN ttl.n
  ELSE IF options.cacheTtl # Undefined THEN options.cacheTtl.n
  ELSE 300000

\* C15: getCached.  With a cacheScope and an adapter, a value held under
\* `<scope>:<suffix>` is returned and the factory is not invoked; on a miss
\* the factory is invoked and the response is stored under that key with the
\* TTL (argument, else cacheTtl, else 300000 ms).  Without a cacheScope or an
\* adapter the factory is always invoked and the cache is neither read nor
\* written.
C15_GetCached ==
  [][IF Configured(options, cacheAdapter)
       THEN /\ (IsGetCachedCall /\ event'.key \in DOMAIN store) =>
                 /\ event'.value = store[event'.key].value
                 /\ ~event'.factory
                 /\ factoryCalls' = factoryCalls
            /\ (IsGetCachedCall /\ event'.key \notin DOMAIN store) =>
                 (event'.factory /\ factoryCalls' = factoryCalls + 1)
            /\ (IsResponse /\ event'.op = "get") =>
                 /\ event'.key \in DOMAIN store'
                 /\ store'[event'.key].value = event'.value
                 /\ store'[event'.key].lifeSpan =
                      [expires |-> TRUE, TTL |-> ClaimedTtl(event'.ttl)]
       ELSE /\ IsGetCachedCall => (event'.factory /\ factoryCalls' = factoryCalls + 1)
            /\ adapterCalls' = NoAdapterCalls
            /\ store' = store]_vars

\* C26: no stale cache entry after invalidation.  With a cacheScope and an
\* adapter, the response of a getCached request that was in flight when a
\* successful mutation invalidated the scope (no getCached call was made since
\* the invalidation, so every request still in flight was sent before it) is
\* not written into the cache when it arrives.
C26_NoStaleEntry ==
  [][(/\ Configured(options, cacheAdapter)
      /\ invalidated
      /\ IsResponse
      /\ event'.op = "get")
       => store' = store]_vars

(***************************************************************************)
(* Frontend api-client: retryRequest(config), one subscription to          *)
(* source.pipe(retryRequest(config)).  RxJS retry({count, delay,           *)
(* resetOnSuccess}) keeps a counter soFar: on an error of the source it     *)
(* tests soFar++ < count, then calls delay(error, soFar) and re-subscribes  *)
(* when the returned timer fires; an error thrown by delay, or an error     *)
(* when the count is used up, goes to the subscriber.                       *)
(***************************************************************************)

MaxSubscriptions == 4

MaxEmitted == 1

\* A property the config object does not have.
Absent == [t |-> "absent", s |-> <<>>, n |-> 0, b |-> FALSE, a |-> <<>>]

DEFAULT_RETRY_COUNT == 3

DEFAULT_RETRY_DELAY == 1000

DEFAULT_RETRY_CONFIG ==
  [count |-> Num(DEFAULT_RETRY_COUNT), delay |-> Num(DEFAULT_RETRY_DELAY),
   resetOnSuccess |-> Bool(FALSE), retryStatusCodes |-> Arr(<<>>)]

\* { ...DEFAULT_RETRY_CONFIG, ...config }
MergedRetryConfig(config) ==
  [f \in DOMAIN DEFAULT_RETRY_CONFIG |->
     IF config[f] = Absent THEN DEFAULT_RETRY_CONFIG[f] ELSE config[f]]

\* retryStatusCodes.includes(status)
IncludesStatus(codes, status) == \E j \in 1..Len(codes.a) : codes.a[j] = status

\* The delay callback throws the error:
\* retryStatusCodes.length > 0 && error?.status && !retryStatusCodes.includes(error.status)
DelayThrows(codes, error) ==
  /\ Len(codes.a) > 0
  /\ Truthy(error.status)
  /\ ~IncludesStatus(codes, error.status)

\* The errors of a source: HTTP error responses, a network error (status 0)
\* and an error that has no status property.
SourceErrors ==
  {[status |-> Num(x)] : x \in {0, 404, 500, 503}} \cup {[status |-> Undefined]}

RetryConfigs ==
  [count : {Absent, Num(0), Num(1), Num(2)},
   delay : {Absent, Num(1500)},
   resetOnSuccess : {Absent, Bool(TRUE)},
   retryStatusCodes : {Absent, Arr(<<>>), Arr(<<Num(502), Num(503), Num(504)>>)}]

InitRetry ==
  /\ OutsideRetry
  /\ retryConfig \in RetryConfigs
  /\ retryState = "subscribed"
  /\ soFar = 0
  /\ subscriptions = 1
  /\ emitted = 0
  /\ lastError = [status |-> Undefined]

\* The source emits a value: if (resetOnSuccess) soFar = 0; subscriber.next(value)
SourceNext ==
  /\ retryState = "subscribed"
  /\ emitted < MaxEmitted
  /\ emitted' = emitted + 1
  /\ soFar' = IF MergedRetryConfig(retryConfig).resetOnSuccess.b THEN 0 ELSE soFar
  /\ UNCHANGED <<retryConfig, retryState, subscriptions, lastError>>
  /\ UNCHANGED nonRetryVars

\* The source completes.
SourceComplete ==
  /\ retryState = "subscribed"
  /\ retryState' = "completed"
  /\ UNCHANGED <<retryConfig, soFar, subscriptions, emitted, lastError>>
  /\ UNCHANGED nonRetryVars

\* The source fails with error.
SourceError(error) ==
  /\ retryState = "subscribed"
  /\ lastError' = error
  /\ LET config == MergedRetryConfig(retryConfig)
     IN  IF soFar < config.count.n
           THEN /\ soFar' = soFar + 1
                /\ retryState' = IF DelayThrows(config.retryStatusCodes, error)
                                   THEN "errored"
                                   ELSE "waiting"
           ELSE /\ soFar' = soFar + 1
                /\ retryState' = "errored"
  /\ UNCHANGED <<retryConfig, subscriptions, emitted>>
  /\ UNCHANGED nonRetryVars

\* timer(delay) fires: the source is subscribed again.
TimerFires ==
  /\ retryState = "waiting"
  /\ subscriptions < MaxSubscriptions
  /\ retryState' = "subscribed"
  /\ subscriptions' = subscriptions + 1
  /\ emitted' = 0
  /\ UNCHANGED <<retryConfig, soFar, lastError>>
  /\ UNCHANGED nonRetryVars

NextRetry ==
  \/ SourceNext
  \/ SourceComplete
  \/ \E error \in SourceErrors : SourceError(error)
  \/ TimerFires

SpecRetry == InitRetry /\ [][NextRetry]_vars

\* C16: retryRequest status filter.  With a non-empty retryStatusCodes the
\* source is re-subscribed only after an error whose status is in the list and
\* any other error (status 0 and no status included) is propagated at once;
\* with an empty list every error is retried; and the source is subscribed at
\* most count + 1 times.
C16_RetryStatusFilter ==
  LET config == MergedRetryConfig(retryConfig)
  IN  /\ (Len(config.retryStatusCodes.a) > 0 /\ retryState = "waiting")
           => IncludesStatus(config.retryStatusCodes, lastError.status)
      /\ (Len(config.retryStatusCodes.a) = 0 /\ retryState = "errored")
           => soFar > config.count.n
      /\ subscriptions <= config.count.n + 1

(***************************************************************************)
(* Frontend common: errorInterceptor, one intercepted request:             *)
(* next(req).pipe(retry({count: maxRetries, delay}), catchError(...)).      *)
(* The retry operator works as above (soFar, subscriptions, retryState,    *)
(* lastError); retryCount is the interceptor's own counter.  The texts of   *)
(* the notifications are left out: a notification is its type and title.   *)
(***************************************************************************)

MAX_RETRIES == 2

RETRY_DELAY == 1000

RETRYABLE_STATUSES == {408, 429, 500, 502, 503, 504}

RECURSIVE Pow2(_)
Pow2(x) == IF x = 0 THEN 1 ELSE 2 * Pow2(x - 1)

\* getRetryDelay: baseDelay * Math.pow(2, retryCount)
getRetryDelay(count, baseDelay) == baseDelay * Pow2(count)

ShouldRetry_AnyStatus(error, count) == count < MAX_RETRIES

\* shouldRetry(error, retryCount, DEFAULT_RETRY_CONFIG)
ShouldRetry(error, count) ==
  IF count >= MAX_RETRIES THEN FALSE
  ELSE IF error.status = Num(0) THEN TRUE
  ELSE error.status.t = "number" /\ error.status.n \in RETRYABLE_STATUSES

\* shouldShowNotification(error, request)
ShouldShowNotification(error, request) ==
  IF error.status = Num(401) /\ request.auth THEN FALSE
  ELSE IF error.status = Num(404) /\ request.method = "GET" THEN FALSE
  ELSE TRUE

\* getErrorTitle(status): titles[status] || 'Error'
getErrorTitle(status) ==
  CASE status = Num(400) -> "Bad Request"
    [] status = Num(401) -> "Unauthorized"
    [] status = Num(403) -> "Forbidden"
    [] status = Num(404) -> "Not Found"
    [] status = Num(409) -> "Conflict"
    [] status = Num(422) -> "Validation Error"
    [] status = Num(429) -> "Too Many Requests"
    [] status = Num(500) -> "Server Error"
    [] status = Num(502) -> "Bad Gateway"
    [] status = Num(503) -> "Service Unavailable"
    [] status = Num(504) -> "Gateway Timeout"
    [] OTHER -> "Error"

\* The notification showErrorNotification shows for error.
ErrorNotification(error) ==
  IF error.validation
    THEN [type |-> "error", title |-> "Validation Error", timeout |-> 8000]
    ELSE [type |-> "error", title |-> getErrorTitle(error.status), timeout |-> 0]

\* notificationService.warning('Connection lost. Retrying ...', 'Network Error',
\* { timeout: delay })
RetryNotification(delay) ==
  [type |-> "warning", title |-> "Network Error", timeout |-> delay]

\* The errors of an attempt: HTTP error responses (one of them with validation
\* errors in its body), a network error (status 0) and an error that has no
\* status.
AttemptErrors ==
  {[status |-> Num(x), validation |-> FALSE] :
     x \in {0, 400, 401, 404} \cup RETRYABLE_STATUSES}
    \cup {[status |-> Num(400), validation |-> TRUE],
          [status |-> Undefined, validation |-> FALSE]}

\* The requests: their method and whether the url includes '/auth'.
Requests == [method : {"GET", "POST"}, auth : BOOLEAN]

InitInterceptor ==
  /\ OutsideInterceptor
  /\ req \in Requests
  /\ retryCount = 0
  /\ logged = <<>>
  /\ notifications = <<>>
  /\ rethrown = <<>>
  /\ retryConfig = [count |-> Num(MAX_RETRIES)]
  /\ retryState = "subscribed"
  /\ soFar = 0
  /\ subscriptions = 1
  /\ emitted = 0
  /\ lastError = [status |-> Undefined, validation |-> FALSE]

\* The attempt succeeds: the response goes to the subscriber.
AttemptSucceeds ==
  /\ retryState = "subscribed"
  /\ emitted' = 1
  /\ retryState' = "completed"
  /\ UNCHANGED <<retryConfig, soFar, subscriptions, lastError>>
  /\ UNCHANGED interceptorVars
  /\ UNCHANGED nonInterceptorVars

\* The attempt fails with error.  The retry operator calls the delay callback
\* while soFar++ < count; the callback returns a timer or throws the error;
\* an error that is not retried reaches catchError, which logs it, shows a
\* notification and re-throws it.
AttemptFails(error) ==
  /\ retryState = "subscribed"
  /\ lastError' = error
  /\ soFar' = soFar + 1
  /\ IF soFar < retryConfig.count.n /\ ShouldRetry(error, retryCount)
       THEN /\ retryCount' = retryCount + 1
            /\ notifications' =
                 IF error.status = Num(0)
                   THEN Append(notifications,
                               RetryNotification(getRetryDelay(retryCount, RETRY_DELAY)))
                   ELSE notifications
            /\ retryState' = "waiting"
            /\ UNCHANGED <<logged, rethrown>>
       ELSE /\ logged' = Append(logged, error)
            /\ notifications' =
                 IF ShouldShowNotification(error, req)
                   THEN Append(notifications, ErrorNotification(error))
                   ELSE notifications
            /\ rethrown' = Append(rethrown, error)
            /\ retryState' = "errored"
            /\ UNCHANGED retryCount
  /\ UNCHANGED <<retryConfig, subscriptions, emitted, req>>
  /\ UNCHANGED nonInterceptorVars

\* timer(delay) fires: next(req) is subscribed again.
RetryTimerFires ==
  /\ retryState = "waiting"
  /\ retryState' = "subscribed"
  /\ subscriptions' = subscriptions + 1
  /\ UNCHANGED <<retryConfig, soFar, emitted, lastError>>
  /\ UNCHANGED interceptorVars
  /\ UNCHANGED nonInterceptorVars

NextInterceptor ==
  \/ AttemptSucceeds
  \/ \E error \in AttemptErrors : AttemptFails(error)
  \/ RetryTimerFires

SpecInterceptor == InitInterceptor /\ [][NextInterceptor]_vars

IsRetryableStatus(status) ==
  status.t = "number" /\ status.n \in {0, 408, 429, 500, 502, 503, 504}

\* C17: errorInterceptor retry policy.  One intercepted request makes at most
\* 1 + maxRetries = 3 attempts; an attempt is retried only when its error has
\* status 0, 408, 429, 500, 502, 503 or 504; any other error, and the error
\* of the third attempt, is logged once and then re-thrown to the subscriber,
\* and nothing is logged or re-thrown otherwise.
C17_RetryPolicy ==
  /\ subscriptions <= 3
  /\ retryState = "waiting" =>
       (IsRetryableStatus(lastError.status) /\ subscriptions < 3)
  /\ (soFar > 0 /\ ~IsRetryableStatus(lastError.status)) => retryState = "errored"
  /\ (subscriptions = 3 /\ soFar = 3) => retryState = "errored"
  /\ IF retryState = "errored"
       THEN logged = <<lastError>> /\ rethrown = <<lastError>>
       ELSE logged = <<>> /\ rethrown = <<>>

C17_Witness ==
  /\ retryState = "errored"
  /\ subscriptions = 3
  /\ retryCount = 2
  /\ lastError.status = Num(503)
  /\ logged = <<lastError>>
  /\ rethrown = <<lastError>>

(***************************************************************************)
(* Frontend: LoadingService.  The Map loadingStates is a sequence of       *)
(* LoadingState records in insertion order (the value of each key's        *)
(* BehaviorSubject); Date.now() reads the clock now.                       *)
(***************************************************************************)

MaxNow == 2

LoadingKeys == {"loadUsers", "saveUser"}

LoadingMessages == {Undefined, Str(<<"L", "o", "a", "d", "i", "n", "g">>)}

\* this.loadingStates.has(key)
HasKey(states, key) == \E j \in 1..Len(states) : states[j].key = key

\* The Map after set(key, value) or subject.next(value): a new key goes last,
\* a known key keeps its place.
SetState(states, state) ==
  IF HasKey(states, state.key)
    THEN [j \in 1..Len(states) |->
            IF states[j].key = state.key THEN state ELSE states[j]]
    ELSE Append(states, state)

\* this.loadingStates.delete(key)
DeleteKey(states, key) == SelectSeq(states, LAMBDA st : st.key # key)

HasActiveLoading_Every(states) ==
  \A j \in 1..Len(states) : states[j].isLoading

\* updateGlobalLoading: Array.from(values()).some(subject => subject.value.isLoading)
HasActiveLoading(states) ==
  \E j \in 1..Len(states) : states[j].isLoading

\* getActiveKeys()
RECURSIVE getActiveKeys(_)
getActiveKeys(states) ==
  IF states = <<>> THEN <<>>
  ELSE IF Head(states).isLoading
    THEN <<Head(states).key>> \o getActiveKeys(Tail(states))
  ELSE getActiveKeys(Tail(states))

InitLoading ==
  /\ OutsideLoading
  /\ loadingStates = <<>>
  /\ globalLoading = FALSE
  /\ now = 1

\* start(key, message)
Start(key, message) ==
  /\ loadingStates' = SetState(loadingStates,
       [key |-> key, isLoading |-> TRUE, startTime |-> now, message |-> message])
  /\ globalLoading' = HasActiveLoading(loadingStates')
  /\ UNCHANGED now
  /\ UNCHANGED nonLoadingVars

\* stop(key)
Stop(key) ==
  /\ loadingStates' =
       [j \in 1..Len(loadingStates) |->
          IF loadingStates[j].key = key
            THEN [loadingStates[j] EXCEPT !.isLoading = FALSE]
            ELSE loadingStates[j]]
  /\ globalLoading' = HasActiveLoading(loadingStates')
  /\ UNCHANGED now
  /\ UNCHANGED nonLoadingVars

\* isLoading$(key): an unknown key is entered as not loading.
IsLoadingObservable(key) ==
  /\ ~HasKey(loadingStates, key)
  /\ loadingStates' = Append(loadingStates,
       [key |-> key, isLoading |-> FALSE, startTime |-> 0, message |-> Undefined])
  /\ UNCHANGED <<globalLoading, now>>
  /\ UNCHANGED nonLoadingVars

\* clear(key)
Clear(key) ==
  /\ loadingStates' = DeleteKey(loadingStates, key)
  /\ globalLoading' = HasActiveLoading(loadingStates')
  /\ UNCHANGED now
  /\ UNCHANGED nonLoadingVars

\* clearAll()
ClearAll ==
  /\ loadingStates' = <<>>
  /\ globalLoading' = FALSE
  /\ UNCHANGED now
  /\ UNCHANGED nonLoadingVars

\* Time passes.
Tick ==
  /\ now < MaxNow
  /\ now' = now + 1
  /\ UNCHANGED <<loadingStates, globalLoading>>
  /\ UNCHANGED nonLoadingVars

NextLoading ==
  \/ \E key \in LoadingKeys, message \in LoadingMessages : Start(key, message)
  \/ \E key \in LoadingKeys : Stop(key)
  \/ \E key \in LoadingKeys : IsLoadingObservable(key)
  \/ \E key \in LoadingKeys : Clear(key)
  \/ ClearAll
  \/ Tick

SpecLoading == InitLoading /\ [][NextLoading]_vars

\* C18: LoadingService global flag.  After any sequence of start, stop, clear,
\* clearAll and isLoading$ calls the latest value of isGlobalLoading$ is true
\* exactly when a tracked key has isLoading = true, that is exactly when
\* getActiveKeys() is not empty.
C18_GlobalFlag ==
  /\ globalLoading = TRUE <=>
       \E key \in LoadingKeys :
         \E j \in 1..Len(loadingStates) :
           loadingStates[j].key = key /\ loadingStates[j].isLoading = TRUE
  /\ globalLoading = TRUE <=> getActiveKeys(loadingStates) # <<>>

\* One key is loading and another is tracked but stopped.
C18_Witness ==
  /\ globalLoading = TRUE
  /\ Len(loadingStates) = 2
  /\ loadingStates[1].isLoading = FALSE
  /\ loadingStates[1].startTime > 0
  /\ loadingStates[2].isLoading = TRUE

(***************************************************************************)
(* Backend common: AllExceptionsFilter.  A request handler raises an       *)
(* exception, catch turns it into a status and a JSON body, logs it and    *)
(* sends it.  An exception is a record [class, driverCode, message, name,  *)
(* stack, status, response]; response is what HttpException.getResponse()  *)
(* returns.                                                                *)
(***************************************************************************)

BAD_REQUEST == 400

NOT_FOUND == 404

REQUEST_TIMEOUT == 408

CONFLICT == 409

INTERNAL_SERVER_ERROR == 500

GENERIC_SERVER_ERROR ==
  <<"A", "n", " ", "i", "n", "t", "e", "r", "n", "a", "l", " ", "s", "e",
    "r", "v", "e", "r", " ", "e", "r", "r", "o", "r", " ", "o", "c", "c",
    "u", "r", "r", "e", "d", ".", " ", "P", "l", "e", "a", "s", "e", " ",
    "t", "r", "y", " ", "a", "g", "a", "i", "n", " ", "l", "a", "t", "e",
    "r", ".">>

S_ResourceNotFound ==
  <<"R", "e", "s", "o", "u", "r", "c", "e", " ", "n", "o", "t", " ", "f",
    "o", "u", "n", "d">>

S_DatabaseErrorOccurred ==
  <<"D", "a", "t", "a", "b", "a", "s", "e", " ", "e", "r", "r", "o", "r",
    " ", "o", "c", "c", "u", "r", "r", "e", "d">>

S_RequestTimeout ==
  <<"R", "e", "q", "u", "e", "s", "t", " ", "t", "i", "m", "e", "o", "u", "t">>

S_AnErrorOccurred ==
  <<"A", "n", " ", "e", "r", "r", "o", "r", " ", "o", "c", "c", "u", "r",
    "r", "e", "d">>

S_InternalServerError ==
  <<"I", "n", "t", "e", "r", "n", "a", "l", " ", "s", "e", "r", "v", "e",
    "r", " ", "e", "r", "r", "o", "r">>

S_ValidationFailed ==
  <<"V", "a", "l", "i", "d", "a", "t", "i", "o", "n", " ", "f", "a", "i",
    "l", "e", "d">>

S_ResourceAlreadyExists ==
  <<"R", "e", "s", "o", "u", "r", "c", "e", " ", "a", "l", "r", "e", "a",
    "d", "y", " ", "e", "x", "i", "s", "t", "s">>

S_ReferencedMissing ==
  <<"R", "e", "f", "e", "r", "e", "n", "c", "e", "d", " ", "r", "e", "s",
    "o", "u", "r", "c", "e", " ", "d", "o", "e", "s", " ", "n", "o", "t",
    " ", "e", "x", "i", "s", "t">>

S_RequiredFieldMissing ==
  <<"R", "e", "q", "u", "i", "r", "e", "d", " ", "f", "i", "e", "l", "d",
    " ", "i", "s", " ", "m", "i", "s", "s", "i", "n", "g">>

S_EntityNotFoundError ==
  <<"E", "n", "t", "i", "t", "y", "N", "o", "t", "F", "o", "u", "n", "d",
    "E", "r", "r", "o", "r">>

S_DatabaseError ==
  <<"D", "a", "t", "a", "b", "a", "s", "e", "E", "r", "r", "o", "r">>

S_TimeoutError ==
  <<"T", "i", "m", "e", "o", "u", "t", "E", "r", "r", "o", "r">>

S_UnknownError ==
  <<"U", "n", "k", "n", "o", "w", "n", "E", "r", "r", "o", "r">>

S_DuplicateError ==
  <<"D", "u", "p", "l", "i", "c", "a", "t", "e", "E", "r", "r", "o", "r">>

S_ForeignKeyViolation ==
  <<"F", "o", "r", "e", "i", "g", "n", "K", "e", "y", "V", "i", "o", "l",
    "a", "t", "i", "o", "n">>

S_NotNullViolation ==
  <<"N", "o", "t", "N", "u", "l", "l", "V", "i", "o", "l", "a", "t", "i",
    "o", "n">>

S_production ==
  <<"p", "r", "o", "d", "u", "c", "t", "i", "o", "n">>

S_development ==
  <<"d", "e", "v", "e", "l", "o", "p", "m", "e", "n", "t">>

S_field ==
  <<"f", "i", "e", "l", "d">>

S_file ==
  <<"[", "f", "i", "l", "e", "]">>

S_at ==
  <<"a", "t">>

S_queryColon ==
  <<"q", "u", "e", "r", "y", ":">>

S_ts ==
  <<"t", "s">>

S_js ==
  <<"j", "s">>

S_sql ==
  <<"s", "q", "l">>

M_UserNotFound ==
  <<"U", "s", "e", "r", " ", "n", "o", "t", " ", "f", "o", "u", "n", "d">>

M_Path ==
  <<"N", "o", " ", "/", "a", "/", "b", ".", "T", "S", " ", "h", "e", "r", "e">>

M_Frame ==
  <<"f", "a", "i", "l", " ", "a", "t", " ", "r", "u", "n", " ", "(", "/",
    "a", ".", "j", "s", ":", "1", ")", " ">>

M_Query ==
  <<"B", "a", "d", " ", "Q", "u", "e", "r", "y", ":", " ", "S", "E", "L",
    "E", "C", "T", " ", "1", "\n", "r", "e", "t", "r", "y">>

M_Secret ==
  <<"p", "a", "s", "s", "w", "o", "r", "d", " ", "i", "s", " ", "h", "u",
    "n", "t", "e", "r", "2">>

M_EmailInvalid ==
  <<"e", "m", "a", "i", "l", " ", "m", "u", "s", "t", " ", "b", "e", " ",
    "a", "n", " ", "e", "m", "a", "i", "l">>

M_Empty2 ==
  <<"!", "n", "a", "m", "e", " ", "e", "m", "p", "t", "y">>

M_Stack ==
  <<"E", "r", "r", "o", "r", ":", " ", "x", "\n", " ", "a", "t", " ", "f",
    " ", "(", "/", "a", ".", "t", "s", ":", "1", ")">>

N_Error ==
  <<"E", "r", "r", "o", "r">>

N_TypeError ==
  <<"T", "y", "p", "e", "E", "r", "r", "o", "r">>

N_QueryFailedError ==
  <<"Q", "u", "e", "r", "y", "F", "a", "i", "l", "e", "d", "E", "r", "r",
    "o", "r">>

N_TypeORMError ==
  <<"T", "y", "p", "e", "O", "R", "M", "E", "r", "r", "o", "r">>

N_HttpException ==
  <<"H", "t", "t", "p", "E", "x", "c", "e", "p", "t", "i", "o", "n">>

N_NotFoundException ==
  <<"N", "o", "t", "F", "o", "u", "n", "d", "E", "x", "c", "e", "p", "t",
    "i", "o", "n">>

N_BadRequestException ==
  <<"B", "a", "d", "R", "e", "q", "u", "e", "s", "t", "E", "x", "c", "e",
    "p", "t", "i", "o", "n">>

N_BadGatewayException ==
  <<"B", "a", "d", "G", "a", "t", "e", "w", "a", "y", "E", "x", "c", "e",
    "p", "t", "i", "o", "n">>

N_InternalServerErrorException ==
  <<"I", "n", "t", "e", "r", "n", "a", "l", "S", "e", "r", "v", "e", "r",
    "E", "r", "r", "o", "r", "E", "x", "c", "e", "p", "t", "i", "o", "n">>

M_NotFound ==
  <<"N", "o", "t", " ", "F", "o", "u", "n", "d">>

M_BadRequest ==
  <<"B", "a", "d", " ", "R", "e", "q", "u", "e", "s", "t">>

M_BadRequestException ==
  <<"B", "a", "d", " ", "R", "e", "q", "u", "e", "s", "t", " ", "E", "x",
    "c", "e", "p", "t", "i", "o", "n">>

M_BadGateway ==
  <<"B", "a", "d", " ", "G", "a", "t", "e", "w", "a", "y">>

M_HttpException ==
  <<"H", "t", "t", "p", " ", "E", "x", "c", "e", "p", "t", "i", "o", "n">>

U_users ==
  <<"/", "u", "s", "e", "r", "s">>

U_users1 ==
  <<"/", "u", "s", "e", "r", "s", "/", "1">>

T_iso ==
  <<"2", "0", "2", "6", "-", "0", "1", "-", "0", "1", "T", "0", "0", ":",
    "0", "0", ":", "0", "0", ".", "0", "0", "0", "Z">>

D_23505 ==
  <<"2", "3", "5", "0", "5">>

D_23503 ==
  <<"2", "3", "5", "0", "3">>

D_23502 ==
  <<"2", "3", "5", "0", "2">>

D_42P01 ==
  <<"4", "2", "P", "0", "1">>

\* The characters matched by the regular expression \w.
WordChars ==
  {"a", "b", "c", "d", "e", "f", "g", "h", "i", "j", "k", "l", "m", "n", "o",
   "p", "q", "r", "s", "t", "u", "v", "w", "x", "y", "z", "A", "B", "C", "D",
   "E", "F", "G", "H", "I", "J", "K", "L", "M", "N", "O", "P", "Q", "R", "S",
   "T", "U", "V", "W", "X", "Y", "Z", "0", "1", "2", "3", "4", "5", "6", "7",
   "8", "9", "_"}

\* The characters the regular expression . does not match.
LineTerminators == {"\n", "\r"}

\* a || b
LogicalOr(a, b) == IF Truthy(a) THEN a ELSE b

\* The last index of the longest run, starting at index from, of characters
\* that are in chars (member = TRUE) or outside it (member = FALSE); from - 1
\* when the run is empty.
RunEnd(s, from, chars, member) ==
  CHOOSE e \in (from - 1)..Len(s) :
    /\ \A x \in from..e : (s[x] \in chars) = member
    /\ e < Len(s) => (s[e + 1] \in chars) # member

\* The greatest element of a non-empty set of numbers.
Greatest(S) == CHOOSE x \in S : \A y \in S : y <= x

\* s.substring(from - 1, to), cut at the end of s.
Piece(s, from, to) ==
  SubSeq(s, from, IF to < Len(s) THEN to ELSE Len(s))

\* /\/[^\s]+\.(ts|js|sql)/i at index i: the last index of the match, 0 when
\* there is none.  [^\s]+ is greedy: the match ends at the last extension of
\* the run of non-blank characters.
ExtensionLen(s, dot) ==
  IF toLowerCase(Piece(s, dot + 1, dot + 2)) \in {S_ts, S_js} THEN 2
  ELSE IF toLowerCase(Piece(s, dot + 1, dot + 3)) = S_sql THEN 3
  ELSE 0

MatchFilePath(s, i) ==
  LET e == RunEnd(s, i + 1, WhiteSpace, FALSE)
      dots == {d \in (i + 2)..e : s[d] = "." /\ ExtensionLen(s, d) > 0}
  IN  IF s[i] = "/" /\ dots # {}
        THEN Greatest(dots) + ExtensionLen(s, Greatest(dots))
        ELSE 0

\* /at\s+[^\s]+\s+\([^)]+\)/i at index i
MatchStackFrame(s, i) ==
  LET blank1 == RunEnd(s, i + 2, WhiteSpace, TRUE)
      name1 == RunEnd(s, blank1 + 1, WhiteSpace, FALSE)
      blank2 == RunEnd(s, name1 + 1, WhiteSpace, TRUE)
      inner == RunEnd(s, blank2 + 2, {")"}, FALSE)
  IN  IF /\ i + 1 <= Len(s)
         /\ toLowerCase(SubSeq(s, i, i + 1)) = S_at
         /\ blank1 >= i + 2
         /\ name1 > blank1
         /\ blank2 > name1
         /\ blank2 + 1 <= Len(s)
         /\ s[blank2 + 1] = "("
         /\ inner >= blank2 + 2
         /\ inner + 1 <= Len(s)
        THEN inner + 1
        ELSE 0

\* /Query:\s+.+/i at index i.  \s+ is greedy and gives characters back until
\* . has one to match; .+ then runs to the end of the line.
MatchQuery(s, i) ==
  LET blank == RunEnd(s, i + 6, WhiteSpace, TRUE)
      starts == {m \in (i + 7)..(blank + 1) :
                   m <= Len(s) /\ s[m] \notin LineTerminators}
  IN  IF /\ i + 5 <= Len(s)
         /\ toLowerCase(SubSeq(s, i, i + 5)) = S_queryColon
         /\ starts # {}
        THEN RunEnd(s, Greatest(starts), LineTerminators, FALSE)
        ELSE 0

MatchAt(rule, s, i) ==
  CASE rule = "file" -> MatchFilePath(s, i)
    [] rule = "frame" -> MatchStackFrame(s, i)
    [] OTHER -> MatchQuery(s, i)

\* s.replace(rule, replacement) with the g flag, from index i on.
RECURSIVE ReplaceFrom(_, _, _, _)
ReplaceFrom(rule, replacement, s, i) ==
  IF i > Len(s) THEN <<>>
  ELSE LET e == MatchAt(rule, s, i)
       IN  IF e = 0
             THEN <<s[i]>> \o ReplaceFrom(rule, replacement, s, i + 1)
             ELSE replacement \o ReplaceFrom(rule, replacement, s, e + 1)

\* message.replace(...).replace(...).replace(...).trim()
RemoveSensitive(s) ==
  trim(ReplaceFrom("query", <<>>,
         ReplaceFrom("frame", <<>>,
           ReplaceFrom("file", S_file, s, 1), 1), 1))

sanitizeErrorMessage_Above500(text, code) ==
  IF code > 500 THEN Str(GENERIC_SERVER_ERROR) ELSE Str(RemoveSensitive(text.s))

\* sanitizeErrorMessage(message, status)
sanitizeErrorMessage(text, code) ==
  IF code >= 500 THEN Str(GENERIC_SERVER_ERROR) ELSE Str(RemoveSensitive(text.s))

\* sanitizeErrorMessage raises a TypeError: message has no replace method.
SanitizeThrows(text, code) == code < 500 /\ text.t # "string"

\* exception instanceof cls
Superclasses(class) ==
  CASE class = "QueryFailedError" -> {"QueryFailedError", "TypeORMError", "Error"}
    [] class = "EntityNotFoundError" ->
         {"EntityNotFoundError", "TypeORMError", "Error"}
    [] class = "TypeORMError" -> {"TypeORMError", "Error"}
    [] class = "TimeoutError" -> {"TimeoutError", "Error"}
    [] class = "HttpException" -> {"HttpException", "Error"}
    [] class = "Error" -> {"Error"}
    [] OTHER -> {}

InstanceOf(e, cls) == cls \in Superclasses(e.class)

\* handleDatabaseError(error)
handleDatabaseError(e, isDevelopment) ==
  CASE e.driverCode = Str(D_23505) ->
         [statusCode |-> CONFLICT, message |-> Str(S_ResourceAlreadyExists),
          error |-> Str(S_DuplicateError)]
    [] e.driverCode = Str(D_23503) ->
         [statusCode |-> BAD_REQUEST, message |-> Str(S_ReferencedMissing),
          error |-> Str(S_ForeignKeyViolation)]
    [] e.driverCode = Str(D_23502) ->
         [statusCode |-> BAD_REQUEST, message |-> Str(S_RequiredFieldMissing),
          error |-> Str(S_NotNullViolation)]
    [] OTHER ->
         [statusCode |-> INTERNAL_SERVER_ERROR,
          message |-> IF isDevelopment THEN e.message
                      ELSE Str(S_DatabaseErrorOccurred),
          error |-> Str(S_DatabaseError)]

\* One element of errors: the field is the first word of the validation
\* message when a blank follows it, field<index> otherwise.
ValidationErrorOf(msg, index) ==
  LET word == RunEnd(msg.s, 1, WordChars, TRUE)
  IN  [field |-> IF word >= 1 /\ word < Len(msg.s)
                      /\ msg.s[word + 1] \in WhiteSpace
                   THEN SubSeq(msg.s, 1, word)
                   ELSE S_field \o NumberToString(index),
       message |-> msg.s]

\* The HttpException branch of catch.
HandledHttp(e) ==
  LET r == e.response
      fallback == LogicalOr(e.message, Str(S_AnErrorOccurred))
  IN  CASE r.t = "string" ->
             [status |-> e.status, message |-> Str(r.s), error |-> Undefined,
              errors |-> Undefined, stack |-> Undefined]
        [] r.t = "object" ->
             [status |-> e.status,
              message |-> IF r.message.t = "array"
                            \/ (Truthy(r.errors) /\ r.errors.t = "array")
                          THEN Str(S_ValidationFailed)
                          ELSE LogicalOr(r.message, fallback),
              error |-> LogicalOr(r.error, e.name),
              errors |-> IF r.message.t = "array"
                           THEN Arr([j \in 1..Len(r.message.a) |->
                                       ValidationErrorOf(r.message.a[j], j - 1)])
                         ELSE IF Truthy(r.errors) /\ r.errors.t = "array"
                           THEN r.errors
                         ELSE Undefined,
              stack |-> Undefined]
        [] OTHER ->
             [status |-> e.status, message |-> fallback, error |-> Undefined,
              errors |-> Undefined, stack |-> Undefined]

\* The branches of catch: status, message, error, errors and stack before
\* the message is sanitized.
Handled(e, isDevelopment) ==
  LET devStack == IF isDevelopment THEN e.stack ELSE Undefined
  IN  CASE InstanceOf(e, "QueryFailedError") ->
             LET dbError == handleDatabaseError(e, isDevelopment)
             IN  [status |-> dbError.statusCode, message |-> dbError.message,
                  error |-> dbError.error, errors |-> Undefined,
                  stack |-> devStack]
        [] InstanceOf(e, "EntityNotFoundError") ->
             [status |-> NOT_FOUND, message |-> Str(S_ResourceNotFound),
              error |-> Str(S_EntityNotFoundError), errors |-> Undefined,
              stack |-> devStack]
        [] InstanceOf(e, "TypeORMError") ->
             [status |-> INTERNAL_SERVER_ERROR,
              message |-> IF isDevelopment THEN e.message
                          ELSE Str(S_DatabaseErrorOccurred),
              error |-> Str(S_DatabaseError), errors |-> Undefined,
              stack |-> devStack]
        [] InstanceOf(e, "TimeoutError") ->
             [status |-> REQUEST_TIMEOUT, message |-> Str(S_RequestTimeout),
              error |-> Str(S_TimeoutError), errors |-> Undefined,
              stack |-> Undefined]
        [] InstanceOf(e, "HttpException") -> HandledHttp(e)
        [] InstanceOf(e, "Error") ->
             [status |-> INTERNAL_SERVER_ERROR,
              message |-> LogicalOr(e.message, Str(S_InternalServerError)),
              error |-> e.name, errors |-> Undefined, stack |-> devStack]
        [] OTHER ->
             [status |-> INTERNAL_SERVER_ERROR,
              message |-> Str(S_InternalServerError),
              error |-> Str(S_UnknownError), errors |-> Undefined,
              stack |-> Undefined]

\* `${value}` for a string or a number
TemplateText(v) == IF v.t = "string" THEN v.s ELSE NumberToString(v.n)

\* The call to the logger: error from 500 on, warn from 400 on, none below.
LogCallOf(h, text, req0, hasService) ==
  LET logContext ==
        [method |-> req0.method, url |-> req0.url, statusCode |-> h.status,
         ip |-> req0.ip, userAgent |-> req0.userAgent]
  IN  IF h.status >= 500
        THEN IF hasService
               THEN [level |-> "error", via |-> "loggerService",
                     message |-> text, stack |-> h.stack,
                     context |-> logContext]
               ELSE [level |-> "error", via |-> "logger",
                     message |-> Str(TemplateText(text) \o <<" ">>
                                       \o LogicalOr(h.stack, Str(<<>>)).s),
                     stack |-> Absent, context |-> logContext]
      ELSE IF h.status >= 400
        THEN [level |-> "warn",
              via |-> IF hasService THEN "loggerService" ELSE "logger",
              message |-> text, stack |-> Absent, context |-> logContext]
      ELSE [level |-> "none", via |-> "none", message |-> Absent,
            stack |-> Absent, context |-> logContext]

\* errorResponse; a field that is not in the object is Absent.
ErrorResponseOf(h, text, req0, isDevelopment) ==
  [success |-> Bool(FALSE), message |-> text, statusCode |-> Num(h.status),
   error |-> h.error, errors |-> h.errors, timestamp |-> Str(T_iso),
   path |-> req0.url,
   stack |-> IF isDevelopment /\ Truthy(h.stack) THEN h.stack ELSE Absent]

\* What getResponse() returns: a string, an object or anything else.
StringResponse(text) ==
  [t |-> "string", s |-> text, message |-> Undefined, error |-> Undefined,
   errors |-> Undefined]

ObjectResponse(text, error, errors) ==
  [t |-> "object", s |-> <<>>, message |-> text, error |-> error,
   errors |-> errors]

OtherResponse ==
  [t |-> "other", s |-> <<>>, message |-> Undefined, error |-> Undefined,
   errors |-> Undefined]

ThrownError(class, driverCode, text, name) ==
  [class |-> class, driverCode |-> driverCode, message |-> Str(text),
   name |-> Str(name), stack |-> Str(M_Stack), status |-> 0,
   response |-> OtherResponse]

ThrownHttp(code, text, name, resp) ==
  [class |-> "HttpException", driverCode |-> Undefined, message |-> Str(text),
   name |-> Str(name), stack |-> Str(M_Stack), status |-> code,
   response |-> resp]

\* throw 'text': a value that is no Error
ThrownValue ==
  [class |-> "none", driverCode |-> Undefined, message |-> Undefined,
   name |-> Undefined, stack |-> Undefined, status |-> 0,
   response |-> OtherResponse]

DatabaseExceptions ==
  {ThrownError("QueryFailedError", code, M_Query, N_QueryFailedError) :
     code \in {Str(D_23505), Str(D_23503), Str(D_23502), Str(D_42P01),
               Undefined}}
  \cup {ThrownError("EntityNotFoundError", Undefined, M_Path, N_TypeORMError),
        ThrownError("TypeORMError", Undefined, M_Secret, N_TypeORMError)}

PlainExceptions ==
  {ThrownError("TimeoutError", Undefined, M_Secret, N_Error),
   ThrownError("Error", Undefined, M_Secret, N_TypeError),
   ThrownError("Error", Undefined, M_Frame, N_Error),
   ThrownError("Error", Undefined, <<>>, N_Error),
   ThrownValue}

HttpExceptions ==
  {ThrownHttp(NOT_FOUND, M_UserNotFound, N_NotFoundException,
     ObjectResponse(Str(M_UserNotFound), Str(M_NotFound), Undefined)),
   ThrownHttp(403, M_Path, N_HttpException, StringResponse(M_Path)),
   ThrownHttp(BAD_REQUEST, M_Frame, N_HttpException, StringResponse(M_Frame)),
   ThrownHttp(BAD_REQUEST, M_Query, N_BadRequestException,
     ObjectResponse(Str(M_Query), Undefined, Undefined)),
   ThrownHttp(BAD_REQUEST, M_BadRequestException, N_BadRequestException,
     ObjectResponse(Arr(<<Str(M_EmailInvalid), Str(M_Empty2)>>),
                    Str(M_BadRequest), Undefined)),
   ThrownHttp(BAD_REQUEST, M_BadRequestException, N_BadRequestException,
     ObjectResponse(Undefined, Undefined,
                    Arr(<<[field |-> <<"i", "d">>, message |-> M_Empty2]>>))),
   ThrownHttp(BAD_REQUEST, M_HttpException, N_HttpException,
     ObjectResponse(Num(42), Undefined, Undefined)),
   ThrownHttp(BAD_REQUEST, <<>>, N_HttpException,
     ObjectResponse(Undefined, Undefined, Undefined)),
   ThrownHttp(BAD_REQUEST, M_HttpException, N_HttpException, OtherResponse),
   ThrownHttp(INTERNAL_SERVER_ERROR, M_Secret,
     N_InternalServerErrorException, StringResponse(M_Secret)),
   ThrownHttp(502, M_Frame, N_BadGatewayException,
     ObjectResponse(Str(M_Frame), Str(M_BadGateway), Undefined)),
   ThrownHttp(503, M_BadRequestException, N_HttpException,
     ObjectResponse(Arr(<<Str(M_EmailInvalid)>>), Undefined, Undefined)),
   ThrownHttp(302, M_UserNotFound, N_HttpException,
     StringResponse(M_UserNotFound))}

Exceptions == DatabaseExceptions \cup PlainExceptions \cup HttpExceptions

HttpRequests ==
  {[method |-> "GET", url |-> Str(U_users1), ip |-> "10.0.0.1",
    userAgent |-> "curl"],
   [method |-> "POST", url |-> Str(U_users), ip |-> "10.0.0.1",
    userAgent |-> "curl"]}

NodeEnvs == {Str(S_production), Str(S_development), Undefined}

InitExceptions ==
  /\ OutsideExceptions
  /\ nodeEnv \in NodeEnvs
  /\ loggerService \in BOOLEAN
  /\ handling = "idle"
  /\ exception = <<>>
  /\ httpRequest = <<>>
  /\ response = <<>>
  /\ logCall = <<>>

\* A handler serving request r raises e, which reaches the filter.
Raise(e, r) ==
  /\ handling # "raised"
  /\ handling' = "raised"
  /\ exception' = e
  /\ httpRequest' = r
  /\ response' = <<>>
  /\ logCall' = <<>>
  /\ UNCHANGED <<nodeEnv, loggerService>>
  /\ UNCHANGED nonExceptionVars

\* catch(exception, host)
Catch ==
  /\ handling = "raised"
  /\ LET isDevelopment == nodeEnv # Str(S_production)
         h == Handled(exception, isDevelopment)
         text == IF isDevelopment THEN h.message
                 ELSE sanitizeErrorMessage(h.message, h.status)
     IN  IF ~isDevelopment /\ SanitizeThrows(h.message, h.status)
           THEN /\ handling' = "threw"
                /\ UNCHANGED <<response, logCall>>
           ELSE /\ handling' = "sent"
                /\ logCall' = LogCallOf(h, text, httpRequest, loggerService)
                /\ response' =
                     [status |-> h.status,
                      json |-> ErrorResponseOf(h, text, httpRequest,
                                              isDevelopment)]
  /\ UNCHANGED <<nodeEnv, loggerService, exception, httpRequest>>
  /\ UNCHANGED nonExceptionVars

NextExceptions ==
  \/ \E e \in Exceptions, r \in HttpRequests : Raise(e, r)
  \/ Catch

SpecExceptions == InitExceptions /\ [][NextExceptions]_vars

MaxToasts == 3

MaxDateNow == 6000

QUEUE_TIMEOUT == 3000

TYPE_success == <<"s", "u", "c", "c", "e", "s", "s">>

TYPE_error == <<"e", "r", "r", "o", "r">>

TYPE_warning == <<"w", "a", "r", "n", "i", "n", "g">>

TYPE_info == <<"i", "n", "f", "o">>

TITLE_Success == <<"S", "u", "c", "c", "e", "s", "s">>

TITLE_Error == <<"E", "r", "r", "o", "r">>

TITLE_Warning == <<"W", "a", "r", "n", "i", "n", "g">>

TITLE_Info == <<"I", "n", "f", "o">>

M_saved == <<"S", "a", "v", "e", "d">>

M_failed == <<"F", "a", "i", "l", "e", "d">>

NotificationMessages == {M_saved, M_failed}

\* The title and options arguments of a call: none, or a title and a timeout
\* of 0.
NotificationArguments ==
  {[title |-> Undefined, options |-> Undefined],
   [title |-> Str(<<"D", "o", "n", "e">>), options |-> [timeout |-> 0]]}

Delays == {1000, 2000}

\* `${type}_${message}`
NotificationKey(type, message) == type \o <<"_">> \o message

\* lastShown && Date.now() - lastShown < this.QUEUE_TIMEOUT
Recent(queue, key, at) ==
  /\ key \in DOMAIN queue
  /\ queue[key] # 0
  /\ at - queue[key] < QUEUE_TIMEOUT

\* title || 'Success', 'Error', 'Warning', 'Info'
TitleOf(type, title) ==
  IF Truthy(title) THEN title.s
  ELSE IF type = TYPE_success THEN TITLE_Success
  ELSE IF type = TYPE_error THEN TITLE_Error
  ELSE IF type = TYPE_warning THEN TITLE_Warning
  ELSE TITLE_Info

\* opts.timeout: {...defaultOptions, ...options}, and for error also
\* timeout: options?.timeout || 7000
TimeOutOf(type, opts) ==
  IF type = TYPE_error
    THEN IF opts # Undefined /\ opts.timeout # 0 THEN opts.timeout ELSE 7000
    ELSE IF opts # Undefined THEN opts.timeout ELSE 5000

\* The call success, error, warning or info makes to the ToastrService.
Toast(type, message, title, opts, at) ==
  [type |-> type, message |-> message, title |-> TitleOf(type, title),
   timeOut |-> TimeOutOf(type, opts), enableHtml |-> FALSE,
   closeButton |-> TRUE, progressBar |-> TRUE, at |-> at]

NoQueue == [key \in {} |-> 0]

InitNotifier ==
  /\ OutsideNotifier
  /\ notificationQueue = NoQueue
  /\ timeouts = {}
  /\ toasts = <<>>
  /\ dateNow = 1000

\* if (this.shouldShowNotification(message, type)) this[type](message, title,
\* options): the body shared by the four *Safe methods.
ShowSafe(type, message, title, opts) ==
  /\ Len(toasts) < MaxToasts
  /\ LET key == NotificationKey(type, message)
     IN  IF Recent(notificationQueue, key, dateNow)
           THEN UNCHANGED <<notificationQueue, timeouts, toasts>>
           ELSE /\ notificationQueue' = (key :> dateNow) @@ notificationQueue
                /\ timeouts' = timeouts \cup
                     {[id |-> Len(toasts) + 1, key |-> key,
                       due |-> dateNow + QUEUE_TIMEOUT]}
                /\ toasts' = Append(toasts, Toast(type, message, title, opts, dateNow))
  /\ UNCHANGED dateNow
  /\ UNCHANGED nonNotifierVars

successSafe(message, title, opts) == ShowSafe(TYPE_success, message, title, opts)

errorSafe(message, title, opts) == ShowSafe(TYPE_error, message, title, opts)

warningSafe(message, title, opts) == ShowSafe(TYPE_warning, message, title, opts)

infoSafe(message, title, opts) == ShowSafe(TYPE_info, message, title, opts)

\* The callback of a clean-up timer: this.notificationQueue.delete(key).
CleanUp(timer) ==
  /\ timer \in timeouts
  /\ dateNow >= timer.due
  /\ timeouts' = timeouts \ {timer}
  /\ notificationQueue' =
       [key \in DOMAIN notificationQueue \ {timer.key} |-> notificationQueue[key]]
  /\ UNCHANGED <<toasts, dateNow>>
  /\ UNCHANGED nonNotifierVars

\* Time passes.
Advance(delay) ==
  /\ dateNow + delay <= MaxDateNow
  /\ dateNow' = dateNow + delay
  /\ UNCHANGED <<notificationQueue, timeouts, toasts>>
  /\ UNCHANGED nonNotifierVars

NextNotifier ==
  \/ \E message \in NotificationMessages, arguments \in NotificationArguments :
       successSafe(message, arguments.title, arguments.options)
  \/ \E message \in NotificationMessages, arguments \in NotificationArguments :
       errorSafe(message, arguments.title, arguments.options)
  \/ \E message \in NotificationMessages, arguments \in NotificationArguments :
       warningSafe(message, arguments.title, arguments.options)
  \/ \E message \in NotificationMessages, arguments \in NotificationArguments :
       infoSafe(message, arguments.title, arguments.options)
  \/ \E timer \in timeouts : CleanUp(timer)
  \/ \E delay \in Delays : Advance(delay)

SpecNotifier == InitNotifier /\ [][NextNotifier]_vars

\* C27: NotificationService duplicate suppression.  Two notifications of the
\* same type and message shown through the *Safe methods are at least
\* QUEUE_TIMEOUT (3000 ms) apart, whatever the order of the calls and the
\* clean-up timer callbacks.
C27_NoDuplicateWithinTimeout ==
  \A i \in 1..Len(toasts), j \in 1..Len(toasts) :
    (/\ i < j
     /\ toasts[i].type = toasts[j].type
     /\ toasts[i].message = toasts[j].message)
      => toasts[j].at - toasts[i].at >= QUEUE_TIMEOUT

(***************************************************************************)
(* Frontend: LoadingService.wrap.  Each subscription to an observable      *)
(* returned by wrap runs start on subscribing and stop when the wrapped    *)
(* observable completes or errors and when the subscription is torn down.  *)
(***************************************************************************)

MaxWrapped == 3

\* The states after stop(key): the state of a known key with isLoading false.
Stopped(states, key) ==
  [j \in 1..Len(states) |->
     IF states[j].key = key THEN [states[j] EXCEPT !.isLoading = FALSE]
     ELSE states[j]]

\* isLoading(key): subject ? subject.value.isLoading : false
isLoading(key) ==
  \E j \in 1..Len(loadingStates) :
    loadingStates[j].key = key /\ loadingStates[j].isLoading

\* subscribe() on wrap(key, observable, message): this.start(key, message),
\* then the wrapped observable is subscribed.
Subscribe(key, message) ==
  /\ Len(wrapped) < MaxWrapped
  /\ wrapped' = Append(wrapped, [key |-> key, state |-> "active"])
  /\ loadingStates' = SetState(loadingStates,
       [key |-> key, isLoading |-> TRUE, startTime |-> now, message |-> message])
  /\ globalLoading' = HasActiveLoading(loadingStates')
  /\ UNCHANGED now
  /\ UNCHANGED nonWrapVars

\* The end of subscription i: the complete or error callback runs stop(key)
\* and tells the subscriber, whose teardown runs stop(key) again; unsubscribe()
\* runs the teardown only.
Terminate(i, state) ==
  /\ i \in 1..Len(wrapped)
  /\ wrapped[i].state = "active"
  /\ wrapped' = [wrapped EXCEPT ![i].state = state]
  /\ loadingStates' = Stopped(Stopped(loadingStates, wrapped[i].key), wrapped[i].key)
  /\ globalLoading' = HasActiveLoading(loadingStates')
  /\ UNCHANGED now
  /\ UNCHANGED nonWrapVars

Complete(i) == Terminate(i, "completed")

Fail(i) == Terminate(i, "errored")

Unsubscribe(i) == Terminate(i, "unsubscribed")

NextWrap ==
  \/ \E key \in LoadingKeys, message \in LoadingMessages : Subscribe(key, message)
  \/ \E i \in 1..Len(wrapped) : Complete(i)
  \/ \E i \in 1..Len(wrapped) : Fail(i)
  \/ \E i \in 1..Len(wrapped) : Unsubscribe(i)
  \/ Tick

SpecWrap == InitLoading /\ [][NextWrap]_vars

\* The subscriptions to wrap(key, ...) that have started and not ended.
InFlight(key) ==
  {i \in 1..Len(wrapped) : wrapped[i].key = key /\ wrapped[i].state = "active"}

\* C28: LoadingService.wrap keeps the key loading while work is in flight.
\* isLoading(key) is true whenever a subscription to an observable returned
\* by wrap(key, ...) has started and has not completed, errored or been
\* unsubscribed, also when several overlap; once all of them have ended
\* isLoading(key) is false.
C28_LoadingWhileInFlight ==
  \A key \in LoadingKeys :
    /\ InFlight(key) # {} => isLoading(key)
    /\ (InFlight(key) = {} /\ \E i \in 1..Len(wrapped) : wrapped[i].key = key)
         => ~isLoading(key)

(***************************************************************************)
(* Frontend common: GlobalErrorHandler.  handleError calls interleave with *)
(* the passing of time and the callback of the reset timer, which runs     *)
(* once its 60000 ms have passed.                                          *)
(***************************************************************************)

MaxHandled == 7

MAX_NOTIFICATIONS_PER_MINUTE == 5

RESET_AFTER == 60000

CRITICAL_MESSAGE == <<"A", "n", " ", "u", "n", "e", "x", "p", "e", "c", "t", "e", "d", " ", "e", "r", "r", "o", "r", " ", "o", "c", "c", "u", "r", "r", "e", "d", ".", " ", "P", "l", "e", "a", "s", "e", " ", "r", "e", "f", "r", "e", "s", "h", " ", "t", "h", "e", " ", "p", "a", "g", "e", " ", "o", "r", " ", "c", "o", "n", "t", "a", "c", "t", " ", "s", "u", "p", "p", "o", "r", "t", " ", "i", "f", " ", "t", "h", "e", " ", "p", "r", "o", "b", "l", "e", "m", " ", "p", "e", "r", "s", "i", "s", "t", "s", ".">>

WARNING_MESSAGE == <<"A", " ", "m", "i", "n", "o", "r", " ", "i", "s", "s", "u", "e", " ", "o", "c", "c", "u", "r", "r", "e", "d", ".", " ", "T", "h", "e", " ", "a", "p", "p", "l", "i", "c", "a", "t", "i", "o", "n", " ", "s", "h", "o", "u", "l", "d", " ", "c", "o", "n", "t", "i", "n", "u", "e", " ", "t", "o", " ", "w", "o", "r", "k", " ", "n", "o", "r", "m", "a", "l", "l", "y", ".">>

\* The values handleError is given: instances of Error with a message, and a
\* value that is no Error.
HandledValues ==
  {[isError |-> TRUE, message |-> <<"C", "a", "n", "n", "o", "t", " ", "r", "e", "a", "d", " ", "p", "r", "o", "p", "e", "r", "t", "i", "e", "s", " ", "o", "f", " ", "u", "n", "d", "e", "f", "i", "n", "e", "d">>],
   [isError |-> TRUE, message |-> <<"N", "U", "L", "L", " ", "r", "e", "f", "e", "r", "e", "n", "c", "e">>],
   [isError |-> TRUE, message |-> <<"N", "e", "t", "w", "o", "r", "k", " ", "t", "i", "m", "e", "o", "u", "t">>],
   [isError |-> TRUE, message |-> <<"R", "e", "q", "u", "e", "s", "t", " ", "r", "e", "j", "e", "c", "t", "e", "d">>],
   [isError |-> TRUE, message |-> <<>>],
   [isError |-> TRUE, message |-> <<"R", "e", "s", "i", "z", "e", "O", "b", "s", "e", "r", "v", "e", "r", " ", "l", "o", "o", "p", " ", "l", "i", "m", "i", "t", " ", "r", "e", "a", "c", "h", "e", "d">>],
   [isError |-> TRUE, message |-> <<"L", "o", "a", "d", "i", "n", "g", " ", "c", "h", "u", "n", "k", " ", "1", "2", " ", "f", "a", "i", "l", "e", "d">>],
   [isError |-> TRUE, message |-> <<"L", "o", "a", "d", "i", "n", "g", " ", "c", "h", "u", "n", "k", " ", "f", "a", "i", "l", "e", "d", ",", " ", "f", "e", "t", "c", "h", " ", "a", "g", "a", "i", "n">>],
   [isError |-> FALSE, message |-> <<"N", "e", "t", "w", "o", "r", "k", " ", "t", "i", "m", "e", "o", "u", "t">>]}

HandlerDelays == {30000, 60000}

\* String.prototype.includes(needle)
includesText(s, needle) ==
  \E i \in 1..(Len(s) - Len(needle) + 1) :
    SubSeq(s, i, i + Len(needle) - 1) = needle

\* /Loading chunk \d+ failed/i
MatchLoadingChunk(text) ==
  LET low == toLowerCase(text)
      head == <<"l", "o", "a", "d", "i", "n", "g", " ", "c", "h", "u", "n", "k", " ">>
      tail == <<" ", "f", "a", "i", "l", "e", "d">>
  IN  \E i \in 1..Len(low), j \in 1..Len(low) :
        /\ i + Len(head) <= j
        /\ j + Len(tail) <= Len(low)
        /\ SubSeq(low, i, i + Len(head) - 1) = head
        /\ \A x \in (i + Len(head))..j : DigitVal(low[x]) < 10
        /\ SubSeq(low, j + 1, j + Len(tail)) = tail

\* isIgnoredError(error)
isIgnoredError(e) ==
  \/ includesText(toLowerCase(e.message), <<"r", "e", "s", "i", "z", "e", "o", "b", "s", "e", "r", "v", "e", "r", " ", "l", "o", "o", "p">>)
  \/ includesText(toLowerCase(e.message), <<"n", "o", "n", "-", "e", "r", "r", "o", "r", " ", "p", "r", "o", "m", "i", "s", "e", " ", "r", "e", "j", "e", "c", "t", "i", "o", "n">>)
  \/ includesText(toLowerCase(e.message), <<"c", "h", "u", "n", "k", "l", "o", "a", "d", "e", "r", "r", "o", "r">>)
  \/ MatchLoadingChunk(e.message)
  \/ includesText(toLowerCase(e.message), <<"s", "c", "r", "i", "p", "t", " ", "e", "r", "r", "o", "r">>)

\* categorizeError(error)
categorizeError(e) ==
  LET text == toLowerCase(e.message)
  IN  IF \/ includesText(text, <<"c", "a", "n", "n", "o", "t", " ", "r", "e", "a", "d">>)
         \/ includesText(text, <<"u", "n", "d", "e", "f", "i", "n", "e", "d">>)
         \/ includesText(text, <<"n", "u", "l", "l">>)
         \/ includesText(text, <<"i", "s", " ", "n", "o", "t", " ", "a", " ", "f", "u", "n", "c", "t", "i", "o", "n">>)
        THEN "critical"
      ELSE IF \/ includesText(text, <<"t", "i", "m", "e", "o", "u", "t">>)
              \/ includesText(text, <<"n", "e", "t", "w", "o", "r", "k">>)
              \/ includesText(text, <<"f", "e", "t", "c", "h">>)
        THEN "warning"
      ELSE "info"

RateLimited_Never(count) == FALSE

\* this.errorNotificationCount >= this.MAX_NOTIFICATIONS_PER_MINUTE
RateLimited(count) == count >= MAX_NOTIFICATIONS_PER_MINUTE

\* What a handleError call did: whether the error service logged and reported
\* the error, the call made to the notification service (method "none" when
\* there was none) and whether the rate limit suppressed a notification.
Handled_(wasLogged, method, text, title, timeout, limited) ==
  [logged |-> wasLogged, method |-> method, message |-> text, title |-> title,
   timeout |-> timeout, limited |-> limited]

NotShown(wasLogged, limited) == Handled_(wasLogged, "none", <<>>, <<>>, 0, limited)

InitHandler ==
  /\ OutsideHandler
  /\ errorNotificationCount = 0
  /\ notificationResetTimer = 0
  /\ resetTimeouts = {}
  /\ handledErrors = 0
  /\ shownSinceReset = 0
  /\ lastHandled = NotShown(FALSE, FALSE)

\* handleError(error), with shouldShowErrorNotification()
handleError(e) ==
  /\ handledErrors < MaxHandled
  /\ handledErrors' = handledErrors + 1
  /\ IF ~e.isError \/ isIgnoredError(e)
       THEN /\ lastHandled' = NotShown(e.isError, FALSE)
            /\ UNCHANGED <<errorNotificationCount, notificationResetTimer,
                           resetTimeouts, shownSinceReset>>
     ELSE IF RateLimited(errorNotificationCount)
       THEN /\ lastHandled' = NotShown(TRUE, TRUE)
            /\ UNCHANGED <<errorNotificationCount, notificationResetTimer,
                           resetTimeouts, shownSinceReset>>
     ELSE /\ errorNotificationCount' = errorNotificationCount + 1
          /\ IF notificationResetTimer = 0
               THEN /\ notificationResetTimer' = handledErrors + 1
                    /\ resetTimeouts' = resetTimeouts \cup
                         {[id |-> handledErrors + 1, left |-> RESET_AFTER]}
               ELSE UNCHANGED <<notificationResetTimer, resetTimeouts>>
          /\ IF categorizeError(e) = "critical"
               THEN /\ lastHandled' = Handled_(TRUE, "error", CRITICAL_MESSAGE,
                                               <<"A", "p", "p", "l", "i", "c", "a", "t", "i", "o", "n", " ", "E", "r", "r", "o", "r">>, 10000, FALSE)
                    /\ shownSinceReset' = shownSinceReset + 1
             ELSE IF categorizeError(e) = "warning"
               THEN /\ lastHandled' = Handled_(TRUE, "warning", WARNING_MESSAGE,
                                               <<"W", "a", "r", "n", "i", "n", "g">>, 5000, FALSE)
                    /\ shownSinceReset' = shownSinceReset + 1
             ELSE /\ lastHandled' = NotShown(TRUE, FALSE)
                  /\ UNCHANGED shownSinceReset
  /\ UNCHANGED nonHandlerVars

\* Time passes for the pending timers.
Elapse(delay) ==
  /\ \E timer \in resetTimeouts : timer.left > 0
  /\ resetTimeouts' =
       {[timer EXCEPT !.left = IF @ > delay THEN @ - delay ELSE 0] :
          timer \in resetTimeouts}
  /\ UNCHANGED <<errorNotificationCount, notificationResetTimer, handledErrors,
                 shownSinceReset, lastHandled>>
  /\ UNCHANGED nonHandlerVars

\* The callback of a reset timer: errorNotificationCount = 0 and
\* notificationResetTimer = null.
ResetCounter(timer) ==
  /\ timer \in resetTimeouts
  /\ timer.left = 0
  /\ resetTimeouts' = resetTimeouts \ {timer}
  /\ errorNotificationCount' = 0
  /\ notificationResetTimer' = 0
  /\ shownSinceReset' = 0
  /\ UNCHANGED <<handledErrors, lastHandled>>
  /\ UNCHANGED nonHandlerVars

NextHandler ==
  \/ \E e \in HandledValues : handleError(e)
  \/ \E delay \in HandlerDelays : Elapse(delay)
  \/ \E timer \in resetTimeouts : ResetCounter(timer)

SpecHandler == InitHandler /\ [][NextHandler]_vars

\* Time passes and a due timer callback is run.
SpecHandlerLive ==
  /\ SpecHandler
  /\ WF_vars(\E delay \in HandlerDelays : Elapse(delay))
  /\ WF_vars(\E timer \in resetTimeouts : ResetCounter(timer))

\* C29: GlobalErrorHandler rate limit.  Between two resets of
\* errorNotificationCount at most 5 error or warning notifications are shown;
\* the counter never exceeds 5; at most one reset timer is pending; the first
\* counted error of a window sets the timer to 60000 ms and the counter goes
\* back to 0 only when they have passed; and a counter above 0 does go back to
\* 0, so notifications are not suppressed forever.
C29_RateLimit ==
  /\ [](/\ shownSinceReset <= MAX_NOTIFICATIONS_PER_MINUTE
        /\ errorNotificationCount <= MAX_NOTIFICATIONS_PER_MINUTE
        /\ Cardinality(resetTimeouts) <= 1)
  /\ [][/\ (handledErrors' = handledErrors + 1 /\ lastHandled'.limited) =>
             errorNotificationCount = MAX_NOTIFICATIONS_PER_MINUTE
        /\ (errorNotificationCount = 0 /\ errorNotificationCount' = 1) =>
             resetTimeouts' = {[id |-> notificationResetTimer',
                                left |-> RESET_AFTER]}
        /\ (errorNotificationCount > 0 /\ errorNotificationCount' = 0) =>
             \E timer \in resetTimeouts : timer.left = 0]_vars
  /\ (errorNotificationCount > 0) ~> (errorNotificationCount = 0)

\* The sixth error of a minute was logged and not shown.
C29_Witness ==
  /\ lastHandled.limited
  /\ lastHandled.logged
  /\ lastHandled.method = "none"
  /\ errorNotificationCount = MAX_NOTIFICATIONS_PER_MINUTE
  /\ shownSinceReset = MAX_NOTIFICATIONS_PER_MINUTE
  /\ handledErrors > MAX_NOTIFICATIONS_PER_MINUTE
  /\ Cardinality(resetTimeouts) = 1

====
